---------------------------- MODULE Spec2Model ----------------------------
(***************************************************************************)
(* Model of the gonexmo webhook handlers (src/server.go): the delivery     *)
(* receipt handler and the inbound message handler, with the standard      *)
(* library functions they call (percent-decoding, form parsing, time       *)
(* parsing, IP parsing) modelled by what they compute on TLA+ strings.     *)
(***************************************************************************)
EXTENDS Integers, Sequences, FiniteSets, TLC

(***************************************************************************)
(* Characters and numbers                                                  *)
(***************************************************************************)
DigitVal ==
  ("0" :> 0) @@ ("1" :> 1) @@ ("2" :> 2) @@ ("3" :> 3) @@ ("4" :> 4) @@
  ("5" :> 5) @@ ("6" :> 6) @@ ("7" :> 7) @@ ("8" :> 8) @@ ("9" :> 9)

HexVal ==
  DigitVal @@
  ("a" :> 10) @@ ("b" :> 11) @@ ("c" :> 12) @@ ("d" :> 13) @@ ("e" :> 14) @@
  ("f" :> 15) @@ ("A" :> 10) @@ ("B" :> 11) @@ ("C" :> 12) @@ ("D" :> 13) @@
  ("E" :> 14) @@ ("F" :> 15)

isDigit(c) == c \in DOMAIN DigitVal

ishex(c) == c \in DOMAIN HexVal

\* The i-th character of s as a one-character string ("" beyond the end).
At(s, i) == IF i >= 1 /\ i <= Len(s) THEN SubSeq(s, i, i) ELSE ""

From(s, i) == SubSeq(s, i, Len(s))

\* The bytes the model can name; any other byte decodes to "?".
ByteChar ==
  (32 :> " ") @@ (37 :> "%") @@ (43 :> "+") @@ (45 :> "-") @@ (46 :> ".") @@
  (58 :> ":") @@
  (48 :> "0") @@ (49 :> "1") @@ (50 :> "2") @@ (51 :> "3") @@ (52 :> "4") @@
  (53 :> "5") @@ (54 :> "6") @@ (55 :> "7") @@ (56 :> "8") @@ (57 :> "9")

\* strconv.Atoi on an unsigned decimal string: [err, val].
RECURSIVE atoiAcc(_, _)
atoiAcc(s, acc) ==
  IF s = "" THEN [err |-> FALSE, val |-> acc]
  ELSE IF ~isDigit(Head(s)) THEN [err |-> TRUE, val |-> 0]
  ELSE atoiAcc(Tail(s), 10 * acc + DigitVal[Head(s)])

Atoi(s) ==
  IF s = "" THEN [err |-> TRUE, val |-> 0]
  ELSE IF Head(s) \in {"+", "-"}
    THEN IF Len(s) = 1 THEN [err |-> TRUE, val |-> 0]
         ELSE LET r == atoiAcc(Tail(s), 0)
              IN  [err |-> r.err,
                   val |-> IF Head(s) = "-" THEN 0 - r.val ELSE r.val]
  ELSE atoiAcc(s, 0)

(***************************************************************************)
(* net/url: QueryUnescape and QueryEscape                                  *)
(***************************************************************************)
\* url.QueryUnescape: "+" becomes a space, "%XX" the byte XX; a "%" not
\* followed by two hex digits is an error, and the result is then "".
RECURSIVE QueryUnescape(_)
QueryUnescape(s) ==
  IF s = "" THEN [err |-> FALSE, val |-> ""]
  ELSE LET c == Head(s) IN
    IF c = "%" THEN
      IF Len(s) >= 3 /\ ishex(At(s, 2)) /\ ishex(At(s, 3))
      THEN LET r == QueryUnescape(From(s, 4))
               b == 16 * HexVal[At(s, 2)] + HexVal[At(s, 3)]
               ch == IF b \in DOMAIN ByteChar THEN ByteChar[b] ELSE "?"
           IN  IF r.err THEN r ELSE [err |-> FALSE, val |-> ch \o r.val]
      ELSE [err |-> TRUE, val |-> ""]
    ELSE LET r == QueryUnescape(Tail(s))
             ch == IF c = "+" THEN " " ELSE c
         IN  IF r.err THEN r ELSE [err |-> FALSE, val |-> ch \o r.val]

\* url.QueryEscape, as the sender of a form-encoded request applies it.
RECURSIVE QueryEscape(_)
QueryEscape(s) ==
  IF s = "" THEN ""
  ELSE LET c == Head(s)
           e == CASE c = " " -> "+"
                  [] c = "%" -> "%25"
                  [] c = "+" -> "%2B"
                  [] c = ":" -> "%3A"
                  [] OTHER   -> c
       IN  e \o QueryEscape(Tail(s))

(***************************************************************************)
(* time: instants and time.Parse for the two layouts the handlers use      *)
(***************************************************************************)
Instant(y, mo, d, h, mi, s) ==
  [year |-> y, month |-> mo, day |-> d, hour |-> h, min |-> mi, sec |-> s]

\* time.Time{} : January 1, year 1, 00:00:00 UTC.
ZeroTime == Instant(1, 1, 1, 0, 0, 0)

IsZero(t) == t = ZeroTime

isLeap(y) == y % 4 = 0 /\ (y % 100 # 0 \/ y % 400 = 0)

daysIn(m, y) ==
  IF m = 2 THEN (IF isLeap(y) THEN 29 ELSE 28)
  ELSE IF m \in {4, 6, 9, 11} THEN 30 ELSE 31

ParseError == [err |-> TRUE, val |-> ZeroTime]

\* getnum(s, fixed): one or two leading digits; [err, val, rest].
getnum(s, fixed) ==
  IF ~isDigit(At(s, 1)) THEN [err |-> TRUE, val |-> 0, rest |-> s]
  ELSE IF ~isDigit(At(s, 2))
    THEN IF fixed THEN [err |-> TRUE, val |-> 0, rest |-> s]
         ELSE [err |-> FALSE, val |-> DigitVal[At(s, 1)], rest |-> From(s, 2)]
  ELSE [err |-> FALSE,
        val |-> 10 * DigitVal[At(s, 1)] + DigitVal[At(s, 2)],
        rest |-> From(s, 3)]

\* A literal of the layout must be a prefix of the value.
skip(s, lit) ==
  IF Len(s) >= Len(lit) /\ SubSeq(s, 1, Len(lit)) = lit
  THEN [err |-> FALSE, rest |-> From(s, Len(lit) + 1)]
  ELSE [err |-> TRUE, rest |-> s]

\* The checks time.Parse makes once every element of the layout is read.
finishParse(y, mo, d, h, mi, s, rest) ==
  IF rest # "" THEN ParseError                     \* extra text
  ELSE IF mo < 1 \/ mo > 12 THEN ParseError
  ELSE IF h >= 24 \/ mi >= 60 \/ s >= 60 THEN ParseError
  ELSE IF d < 1 \/ d > daysIn(mo, y) THEN ParseError
  ELSE [err |-> FALSE, val |-> Instant(y, mo, d, h, mi, s)]

\* time.Parse("0601021504", t)
ParseCompact(t) ==
  LET yy == getnum(t, TRUE)
      mo == getnum(yy.rest, TRUE)
      dd == getnum(mo.rest, TRUE)
      hh == getnum(dd.rest, FALSE)
      mi == getnum(hh.rest, TRUE)
  IN  IF Len(t) < 2 \/ yy.err \/ mo.err \/ dd.err \/ hh.err \/ mi.err
      THEN ParseError
      ELSE finishParse(IF yy.val >= 69 THEN 1900 + yy.val ELSE 2000 + yy.val,
                       mo.val, dd.val, hh.val, mi.val, 0, mi.rest)

\* time.Parse("2006-01-02 15:04:05", t)
ParseDateTime(t) ==
  LET y1 == getnum(t, TRUE)
      y2 == getnum(y1.rest, TRUE)
      s1 == skip(y2.rest, "-")
      mo == getnum(s1.rest, TRUE)
      s2 == skip(mo.rest, "-")
      dd == getnum(s2.rest, TRUE)
      s3 == skip(dd.rest, " ")
      hh == getnum(s3.rest, FALSE)
      s4 == skip(hh.rest, ":")
      mi == getnum(s4.rest, TRUE)
      s5 == skip(mi.rest, ":")
      ss == getnum(s5.rest, TRUE)
  IN  IF y1.err \/ y2.err \/ s1.err \/ mo.err \/ s2.err \/ dd.err \/ s3.err
         \/ hh.err \/ s4.err \/ mi.err \/ s5.err \/ ss.err
      THEN ParseError
      ELSE finishParse(100 * y1.val + y2.val, mo.val, dd.val, hh.val, mi.val,
                       ss.val, ss.rest)

(***************************************************************************)
(* net: SplitHostPort, ParseIP, ParseCIDR, IPNet.Contains; IsTrustedIP     *)
(***************************************************************************)
Positions(s, ch) == {i \in 1..Len(s) : At(s, i) = ch}

Max(S) == CHOOSE i \in S : \A j \in S : j <= i

Min(S) == CHOOSE i \in S : \A j \in S : i <= j

\* net.SplitHostPort for host:port without brackets: the port follows the
\* last colon, and any other colon in the host is an error.
SplitHostPort(hostport) ==
  LET cs == Positions(hostport, ":") IN
  IF cs = {} THEN [err |-> TRUE, host |-> "", port |-> ""]
  ELSE IF Cardinality(cs) > 1 THEN [err |-> TRUE, host |-> "", port |-> ""]
  ELSE [err |-> FALSE,
        host |-> SubSeq(hostport, 1, Max(cs) - 1),
        port |-> From(hostport, Max(cs) + 1)]

RECURSIVE pow2(_)
pow2(n) == IF n = 0 THEN 1 ELSE 2 * pow2(n - 1)

\* The decimal fields of a dotted string.
RECURSIVE split(_, _)
split(s, ch) ==
  LET ps == Positions(s, ch) IN
  IF ps = {} THEN <<s>>
  ELSE <<SubSeq(s, 1, Min(ps) - 1)>> \o split(From(s, Min(ps) + 1), ch)

\* One field of a dotted quad: 1 to 3 digits, no leading zero, at most 255.
octet(f) ==
  LET n == Atoi(f) IN
  IF Len(f) < 1 \/ Len(f) > 3 \/ ~isDigit(At(f, 1)) \/ n.err THEN -1
  ELSE IF Len(f) > 1 /\ At(f, 1) = "0" THEN -1
  ELSE IF n.val > 255 THEN -1
  ELSE n.val

\* A nil net.IP has no bytes.
NilIP == << >>

\* net.ParseIP for dotted-quad IPv4 text: the four octets, or the nil IP.
ParseIP(s) ==
  LET fs == split(s, ".") IN
  IF Len(fs) # 4 THEN NilIP
  ELSE IF \E i \in 1..4 : octet(fs[i]) < 0 THEN NilIP
  ELSE [i \in 1..4 |-> octet(fs[i])]

\* The leading `bits` bits of an address, as the pair of its upper and lower
\* 16-bit halves each cut to the bits the prefix covers.
prefix(ip, bits) ==
  LET hi == ip[1] * 256 + ip[2]
      lo == ip[3] * 256 + ip[4]
  IN  IF bits <= 16 THEN << hi \div pow2(16 - bits), 0 >>
      ELSE << hi, lo \div pow2(32 - bits) >>

\* A nil *net.IPNet, what ParseCIDR returns for an invalid mask.
NilIPNet == [ok |-> FALSE, base |-> << 0, 0 >>, bits |-> 0]

\* net.ParseCIDR: the network of "a.b.c.d/n", its address bits above the
\* prefix length kept as base.
ParseCIDR(mask) ==
  LET ps   == Positions(mask, "/")
      ip   == IF ps = {} THEN NilIP
              ELSE ParseIP(SubSeq(mask, 1, Min(ps) - 1))
      bits == IF ps = {} THEN [err |-> TRUE, val |-> 0]
              ELSE atoiAcc(From(mask, Min(ps) + 1), 0)
  IN  IF ps = {} \/ ip = NilIP \/ bits.err \/ bits.val > 32 THEN NilIPNet
      ELSE [ok |-> TRUE,
            base |-> prefix(ip, bits.val),
            bits |-> bits.val]

\* (*IPNet).Contains: a nil IP is in no network.
Contains(n, ip) ==
  /\ ip # NilIP
  /\ n.ok
  /\ prefix(ip, n.bits) = n.base

masks ==
  << "174.37.245.32/29",
     "174.36.197.192/28",
     "173.193.199.16/28",
     "119.81.44.0/28" >>

\* init(): the parsed networks.
subnets == [i \in 1..Len(masks) |-> ParseCIDR(masks[i])]

\* A faulty IsTrustedIP: only the first network is consulted.
IsTrustedIP_FirstOnly(ipStr) ==
  LET ip == ParseIP(ipStr) IN Contains(subnets[1], ip)

IsTrustedIP(ipStr) ==
  LET ip == ParseIP(ipStr) IN
  \E i \in 1..Len(subnets) : Contains(subnets[i], ip)

(***************************************************************************)
(* net/http: the request as the handlers see it, and form parsing          *)
(*                                                                         *)
(* A request is a record                                                   *)
(*   RemoteAddr    the peer's "host:port"                                  *)
(*   Method        "GET" or "POST"                                         *)
(*   Header        header name -> sequence of values                       *)
(*   RawQuery      the query string's key=value pairs, still               *)
(*                 percent-encoded; the empty function is the empty query  *)
(*   Body          [kind, fields]: "none", "form" (percent-encoded pairs), *)
(*                 "json" (a flat object of strings) or "text" (neither)   *)
(*   ContentLength the declared body length, -1 when unknown               *)
(***************************************************************************)
StatusOK == 200

StatusBadRequest == 400

StatusInternalServerError == 500

NoFields == [k \in {} |-> ""]

\* http.Error: the status, and the error text followed by a newline.
Error(error, code) == [status |-> code, body |-> error \o "\n"]

\* w.WriteHeader(code) with nothing written after it, and also what the
\* server answers when a handler returns having written nothing (code 200).
WriteHeader(code) == [status |-> code, body |-> ""]

\* url.ParseQuery: every pair whose value percent-decodes; err when one
\* did not (that pair is dropped, the others are kept).
ParseQuery(pairs) ==
  LET good == {k \in DOMAIN pairs : ~QueryUnescape(pairs[k]).err} IN
  [err    |-> good # DOMAIN pairs,
   values |-> [k \in good |-> QueryUnescape(pairs[k]).val]]

\* Header.Get
Get(header, name) ==
  IF name \in DOMAIN header /\ Len(header[name]) > 0 THEN header[name][1]
  ELSE ""

\* mime.ParseMediaType, the media type alone: the text before any ";".
MediaType(v) ==
  LET ps == Positions(v, ";") IN
  IF ps = {} THEN v ELSE SubSeq(v, 1, Min(ps) - 1)

\* parsePostForm: the body's pairs, read only from a POST whose media type
\* is the form type.
parsePostForm(req) ==
  IF /\ req.Method = "POST"
     /\ MediaType(Get(req.Header, "Content-Type"))
          = "application/x-www-form-urlencoded"
     /\ req.Body.kind = "form"
  THEN ParseQuery(req.Body.fields)
  ELSE [err |-> FALSE, values |-> NoFields]

\* (*Request).ParseForm: req.Form holds the body's values before the query's.
ParseForm(req) ==
  LET post  == parsePostForm(req)
      query == ParseQuery(req.RawQuery)
  IN  [err  |-> post.err \/ query.err,
       Form |-> [k \in DOMAIN post.values \cup DOMAIN query.values |->
                   IF k \in DOMAIN post.values THEN post.values[k]
                   ELSE query.values[k]]]

\* (*Request).FormValue after ParseForm: the first value, "" when absent.
FormValue(Form, key) == IF key \in DOMAIN Form THEN Form[key] ELSE ""

(***************************************************************************)
(* Delivery receipts                                                       *)
(***************************************************************************)
rawDeliveryReceipt(to, nc, id, msisdn, status, ec, price, scts, ts, cr) ==
  [To |-> to, NetworkCode |-> nc, MessageID |-> id, MSISDN |-> msisdn,
   Status |-> status, ErrorCode |-> ec, Price |-> price, SCTS |-> scts,
   Timestamp |-> ts, ClientReference |-> cr]

\* The record no DeliveryReceipt or ReceivedMessage equals: a nil pointer.
Nil == [nil |-> TRUE]

\* No response written yet.
NoResponse == [status |-> 0, body |-> ""]

\* parseForm: [err, rm, w], w being what it wrote to the ResponseWriter.
parseForm(req) ==
  LET f == ParseForm(req) IN
  IF f.err
  THEN [err |-> TRUE, rm |-> Nil,
        w |-> Error("Failed to parse form data", StatusInternalServerError)]
  ELSE [err |-> FALSE,
        rm  |-> rawDeliveryReceipt(
                  FormValue(f.Form, "to"),
                  FormValue(f.Form, "network-code"),
                  FormValue(f.Form, "messageId"),
                  FormValue(f.Form, "msisdn"),
                  FormValue(f.Form, "status"),
                  FormValue(f.Form, "err-code"),
                  FormValue(f.Form, "price"),
                  FormValue(f.Form, "client-ref"),
                  FormValue(f.Form, "message-timestamp"),
                  FormValue(f.Form, "client-ref")),
        w   |-> NoResponse]

\* json.Unmarshal into a rawDeliveryReceipt: a key that is absent leaves "".
jsonField(fields, key) == IF key \in DOMAIN fields THEN fields[key] ELSE ""

\* A faulty parseJSON: an unreadable body is answered 400 instead of 500.
parseJSON_BadRequest(req) ==
  IF req.Body.kind # "json"
  THEN [err |-> TRUE, rm |-> Nil, w |-> Error("", StatusBadRequest)]
  ELSE [err |-> FALSE,
        rm  |-> rawDeliveryReceipt(
                  jsonField(req.Body.fields, "to"),
                  jsonField(req.Body.fields, "network-code"),
                  jsonField(req.Body.fields, "messageId"),
                  jsonField(req.Body.fields, "msisdn"),
                  jsonField(req.Body.fields, "status"),
                  jsonField(req.Body.fields, "err-code"),
                  jsonField(req.Body.fields, "price"),
                  jsonField(req.Body.fields, "scts"),
                  jsonField(req.Body.fields, "message-timestamp"),
                  jsonField(req.Body.fields, "client-ref")),
        w   |-> NoResponse]

\* parseJSON: [err, rm, w].
parseJSON(req) ==
  IF req.Body.kind # "json"
  THEN [err |-> TRUE, rm |-> Nil, w |-> Error("", StatusInternalServerError)]
  ELSE [err |-> FALSE,
        rm  |-> rawDeliveryReceipt(
                  jsonField(req.Body.fields, "to"),
                  jsonField(req.Body.fields, "network-code"),
                  jsonField(req.Body.fields, "messageId"),
                  jsonField(req.Body.fields, "msisdn"),
                  jsonField(req.Body.fields, "status"),
                  jsonField(req.Body.fields, "err-code"),
                  jsonField(req.Body.fields, "price"),
                  jsonField(req.Body.fields, "scts"),
                  jsonField(req.Body.fields, "message-timestamp"),
                  jsonField(req.Body.fields, "client-ref")),
        w   |-> NoResponse]

DeliveryReceipt(rawDLR, scts, timestamp) ==
  [To |-> rawDLR.To, NetworkCode |-> rawDLR.NetworkCode,
   MessageID |-> rawDLR.MessageID, MSISDN |-> rawDLR.MSISDN,
   Status |-> rawDLR.Status, ErrorCode |-> rawDLR.ErrorCode,
   Price |-> rawDLR.Price, SCTS |-> scts, Timestamp |-> timestamp,
   ClientReference |-> rawDLR.ClientReference]

\* A faulty convertTimestamps: a message-timestamp that does not parse is
\* left as the zero instant and the receipt is returned all the same.
convertTimestamps_Partial(rawDLR) ==
  LET t1 == QueryUnescape(rawDLR.SCTS)
      p1 == ParseCompact(t1.val)
      t2 == QueryUnescape(rawDLR.Timestamp)
      p2 == ParseDateTime(t2.val)
      fail(text) == [err |-> TRUE, dlr |-> Nil,
                     w |-> Error(text, StatusInternalServerError)]
  IN  IF t1.err THEN fail("unable to return formvalue scts")
      ELSE IF p1.err THEN fail("unable to parse time value from scts")
      ELSE IF t2.err
        THEN fail("unable to return formvalue message-timestamp")
      ELSE [err |-> FALSE, dlr |-> DeliveryReceipt(rawDLR, p1.val, p2.val),
            w |-> NoResponse]

\* convertTimestamps: [err, dlr, w].
convertTimestamps(rawDLR) ==
  LET t1 == QueryUnescape(rawDLR.SCTS)
      p1 == ParseCompact(t1.val)
      t2 == QueryUnescape(rawDLR.Timestamp)
      p2 == ParseDateTime(t2.val)
      fail(text) == [err |-> TRUE, dlr |-> Nil,
                     w |-> Error(text, StatusInternalServerError)]
  IN  IF t1.err THEN fail("unable to return formvalue scts")
      ELSE IF p1.err THEN fail("unable to parse time value from scts")
      ELSE IF t2.err
        THEN fail("unable to return formvalue message-timestamp")
      ELSE IF p2.err
        THEN fail("unable to parse time value from message-timestamp")
      ELSE [err |-> FALSE, dlr |-> DeliveryReceipt(rawDLR, p1.val, p2.val),
            w |-> NoResponse]

\* A faulty fromNexmo: a request without a query string is let through
\* whatever its remote address.
fromNexmo_PingExempt(req) ==
  LET hp == SplitHostPort(req.RemoteAddr) IN
  ~(~IsTrustedIP(hp.host) \/ hp.err) \/ req.RawQuery = NoFields

\* The check both handlers make when verifyIPs is set: the request passes
\* when its remote address splits and its host is a trusted IP.
fromNexmo(req) ==
  LET hp == SplitHostPort(req.RemoteAddr) IN
  ~(~IsTrustedIP(hp.host) \/ hp.err)

\* A faulty deliveryPing: a request of unknown length is not taken for a ping.
deliveryPing_ZeroLength(req) ==
  req.RawQuery = NoFields /\ req.ContentLength = 0

\* The provider's availability probe, as the delivery handler recognises it.
deliveryPing(req) == req.RawQuery = NoFields /\ req.ContentLength <= 0

\* A faulty notSupported: the answer does not say which type was received.
notSupported_Unnamed(contentType) ==
  Error("Content-Type not supported.", StatusBadRequest)

\* The answer to a content type that is neither JSON nor form.
notSupported(contentType) ==
  Error("Content-Type " \o contentType \o " not supported.", StatusBadRequest)

\* The handler function NewDeliveryHandler returns, run on one request:
\* w is the response, m the receipt it passes to out (Nil when none).
deliveryHandlerFunc(verify, req) ==
  IF verify /\ ~fromNexmo(req)
  THEN [w |-> Error("", StatusInternalServerError), m |-> Nil]
  ELSE IF deliveryPing(req) THEN [w |-> WriteHeader(StatusOK), m |-> Nil]
  ELSE IF "Content-Type" \notin DOMAIN req.Header
  THEN [w |-> Error("Content-Type not set", StatusBadRequest), m |-> Nil]
  ELSE
    LET contentType == req.Header["Content-Type"]
        parsed ==
          IF contentType[1] = "application/json" THEN parseJSON(req)
          ELSE IF contentType[1] = "application/x-www-form-urlencoded"
            THEN parseForm(req)
          ELSE [err |-> TRUE, rm |-> Nil, w |-> notSupported(contentType[1])]
    IN  IF parsed.err THEN [w |-> parsed.w, m |-> Nil]
        ELSE LET c == convertTimestamps(parsed.rm) IN
             IF c.err THEN [w |-> c.w, m |-> Nil]
             ELSE [w |-> WriteHeader(StatusOK), m |-> c.dlr]

(***************************************************************************)
(* Inbound messages                                                        *)
(***************************************************************************)
TextMessage == 1

UnicodeMessage == 2

BinaryMessage == 3

\* A faulty messageContent: a binary message without data or udh is refused.
messageContent_BinaryNeedsData(Form) ==
  LET type == FormValue(Form, "type")
      text == QueryUnescape(FormValue(Form, "text"))
      data == QueryUnescape(FormValue(Form, "data"))
      udh  == QueryUnescape(FormValue(Form, "udh"))
      zero == [err |-> TRUE, Type |-> 0, Text |-> "", Data |-> "", UDH |-> ""]
  IN  CASE type = "text" ->
             IF text.err THEN zero
             ELSE [zero EXCEPT !.err = FALSE, !.Type = TextMessage,
                               !.Text = text.val]
        [] type = "unicode" ->
             IF text.err THEN zero
             ELSE [zero EXCEPT !.err = FALSE, !.Type = UnicodeMessage,
                               !.Text = text.val]
        [] type = "binary" ->
             IF data.err \/ udh.err \/ data.val = "" \/ udh.val = "" THEN zero
             ELSE [zero EXCEPT !.err = FALSE, !.Type = BinaryMessage,
                               !.Data = data.val, !.UDH = udh.val]
        [] OTHER -> zero

\* A faulty messageContent: a unicode message is tagged as a text message.
messageContent_UnicodeAsText(Form) ==
  LET type == FormValue(Form, "type")
      text == QueryUnescape(FormValue(Form, "text"))
      data == QueryUnescape(FormValue(Form, "data"))
      udh  == QueryUnescape(FormValue(Form, "udh"))
      zero == [err |-> TRUE, Type |-> 0, Text |-> "", Data |-> "", UDH |-> ""]
  IN  CASE type \in {"text", "unicode"} ->
             IF text.err THEN zero
             ELSE [zero EXCEPT !.err = FALSE, !.Type = TextMessage,
                               !.Text = text.val]
        [] type = "binary" ->
             IF data.err \/ udh.err THEN zero
             ELSE [zero EXCEPT !.err = FALSE, !.Type = BinaryMessage,
                               !.Data = data.val, !.UDH = udh.val]
        [] OTHER -> zero

\* The switch on the type field: [err, Type, Text, Data, UDH].  A field the
\* chosen case does not assign keeps the zero value new(ReceivedMessage)
\* gave it.
messageContent(Form) ==
  LET type == FormValue(Form, "type")
      text == QueryUnescape(FormValue(Form, "text"))
      data == QueryUnescape(FormValue(Form, "data"))
      udh  == QueryUnescape(FormValue(Form, "udh"))
      zero == [err |-> TRUE, Type |-> 0, Text |-> "", Data |-> "", UDH |-> ""]
  IN  CASE type = "text" ->
             IF text.err THEN zero
             ELSE [zero EXCEPT !.err = FALSE, !.Type = TextMessage,
                               !.Text = text.val]
        [] type = "unicode" ->
             IF text.err THEN zero
             ELSE [zero EXCEPT !.err = FALSE, !.Type = UnicodeMessage,
                               !.Text = text.val]
        [] type = "binary" ->
             IF data.err \/ udh.err THEN zero
             ELSE [zero EXCEPT !.err = FALSE, !.Type = BinaryMessage,
                               !.Data = data.val, !.UDH = udh.val]
        [] OTHER -> zero

\* A faulty messageTimestamp: a missing message-timestamp is taken for the
\* zero instant.
messageTimestamp_EmptyIsZero(Form) ==
  LET t == QueryUnescape(FormValue(Form, "message-timestamp")) IN
  IF t.err THEN ParseError
  ELSE IF t.val = "" THEN [err |-> FALSE, val |-> ZeroTime]
  ELSE ParseDateTime(t.val)

\* The message-timestamp field, unescaped and parsed: [err, val].
messageTimestamp(Form) ==
  LET t == QueryUnescape(FormValue(Form, "message-timestamp")) IN
  IF t.err THEN ParseError ELSE ParseDateTime(t.val)

\* A faulty messageConcat: a concat-part that is not an integer counts as 0.
messageConcat_PartOptional(Form) ==
  LET total == Atoi(FormValue(Form, "concat-total"))
      part  == Atoi(FormValue(Form, "concat-part"))
  IN  IF FormValue(Form, "concat") = "true"
      THEN [err          |-> total.err,
            Concatenated |-> TRUE,
            Concat       |-> [Reference |-> FormValue(Form, "concat-ref"),
                              Total     |-> total.val,
                              Part      |-> part.val]]
      ELSE [err          |-> FALSE,
            Concatenated |-> FALSE,
            Concat       |-> [Reference |-> "", Total |-> 0, Part |-> 0]]

\* A faulty messageConcat: any concat field that is present switches the
\* concatenation fields on.
messageConcat_AnyValue(Form) ==
  LET total == Atoi(FormValue(Form, "concat-total"))
      part  == Atoi(FormValue(Form, "concat-part"))
  IN  IF FormValue(Form, "concat") # ""
      THEN [err          |-> total.err \/ part.err,
            Concatenated |-> TRUE,
            Concat       |-> [Reference |-> FormValue(Form, "concat-ref"),
                              Total     |-> total.val,
                              Part      |-> part.val]]
      ELSE [err          |-> FALSE,
            Concatenated |-> FALSE,
            Concat       |-> [Reference |-> "", Total |-> 0, Part |-> 0]]

\* The concatenation fields: [err, Concatenated, Concat].
messageConcat(Form) ==
  LET total == Atoi(FormValue(Form, "concat-total"))
      part  == Atoi(FormValue(Form, "concat-part"))
  IN  IF FormValue(Form, "concat") = "true"
      THEN [err          |-> total.err \/ part.err,
            Concatenated |-> TRUE,
            Concat       |-> [Reference |-> FormValue(Form, "concat-ref"),
                              Total     |-> total.val,
                              Part      |-> part.val]]
      ELSE [err          |-> FALSE,
            Concatenated |-> FALSE,
            Concat       |-> [Reference |-> "", Total |-> 0, Part |-> 0]]

ReceivedMessage(Form, content, timestamp, concat) ==
  [Type         |-> content.Type,
   To           |-> FormValue(Form, "to"),
   MSISDN       |-> FormValue(Form, "msisdn"),
   NetworkCode  |-> FormValue(Form, "network-code"),
   ID           |-> FormValue(Form, "messageId"),
   Timestamp    |-> timestamp,
   Concatenated |-> concat.Concatenated,
   Concat       |-> concat.Concat,
   Text         |-> content.Text,
   Keyword      |-> FormValue(Form, "keyword"),
   Data         |-> content.Data,
   UDH          |-> content.UDH]

\* The provider's availability probe, as the message handler recognises it.
messagePing(req) == req.RawQuery = NoFields

\* The handler function NewMessageHandler returns, run on one request; the
\* error of ParseForm is discarded.
messageHandlerFunc(verify, req) ==
  IF verify /\ ~fromNexmo(req)
  THEN [w |-> Error("", StatusInternalServerError), m |-> Nil]
  ELSE IF messagePing(req) THEN [w |-> WriteHeader(StatusOK), m |-> Nil]
  ELSE
    LET Form      == ParseForm(req).Form
        content   == messageContent(Form)
        timestamp == messageTimestamp(Form)
        concat    == messageConcat(Form)
    IN  IF content.err \/ timestamp.err \/ concat.err
        THEN [w |-> Error("", StatusInternalServerError), m |-> Nil]
        ELSE [w |-> WriteHeader(StatusOK),
              m |-> ReceivedMessage(Form, content, timestamp.val, concat)]

(***************************************************************************)
(* The requests the provider and other peers send                          *)
(***************************************************************************)
\* Capacity of the out channel the caller passes to the constructor.
ChanCap == 1

Trusted == "174.37.245.33:4711"

RemoteAddrs == {Trusted, "8.8.8.8:4711", "174.37.245.33"}

FormType == "application/x-www-form-urlencoded"

JSONType == "application/json"

NoHeader == [k \in {} |-> << >>]

ContentType(v) == "Content-Type" :> << v >>

Headers ==
  {NoHeader, ContentType(JSONType), ContentType(FormType),
   ContentType("text/plain"), ContentType(FormType \o "; charset=UTF-8")}

\* The pairs of vals whose value is not empty.
NonEmpty(vals) ==
  [k \in {j \in DOMAIN vals : vals[j] # ""} |-> vals[k]]

\* vals as a sender percent-encodes them into a query string or form body.
Encoded(vals) == [k \in DOMAIN vals |-> QueryEscape(vals[k])]

NoBody == [kind |-> "none", fields |-> NoFields]

FormBody(vals) ==
  IF vals = NoFields THEN NoBody
  ELSE [kind |-> "form", fields |-> Encoded(vals)]

\* A form body one of whose values is not validly percent-encoded.
BadFormBody(vals) ==
  [kind |-> "form", fields |-> Encoded(vals) @@ ("x" :> "%zz")]

JSONBody(vals) == [kind |-> "json", fields |-> vals]

\* A body that is neither a JSON object nor form pairs.
TextBody == [kind |-> "text", fields |-> NoFields]

\* The byte count of a body, of which the handlers read only the sign.
length(body) ==
  IF body.kind = "none" THEN 0 ELSE 2 + Cardinality(DOMAIN body.fields)

\* The lengths a request can declare for its body: the length, or -1 when
\* the body is sent chunked.
Lengths(body) == {length(body), -1}

Request(remote, method, header, query, body, len) ==
  [RemoteAddr |-> remote, Method |-> method, Header |-> header,
   RawQuery |-> query, Body |-> body, ContentLength |-> len]

Post(remote, header, body, len) ==
  Request(remote, "POST", header, NoFields, body, len)

\* The seven receipt fields that are copied through.
PassThrough ==
  ("to" :> "go nexmo") @@ ("network-code" :> "24001") @@
  ("messageId" :> "0A000001") @@ ("msisdn" :> "46700001") @@
  ("status" :> "delivered") @@ ("err-code" :> "0") @@ ("price" :> "0.03")

SCTSValues == {"", "2205051435", "220505143%35", "%zz", "2213051435"}

TimestampValues ==
  {"", "2022-05-05 14:35:48", "2022-05-05+14%3A35%3A48", "%",
   "2022-05-05 14:35:48 +0000"}

ClientReferences == {"", "ref-1", "2301020304"}

ReceiptValues ==
  { PassThrough @@ ("scts" :> s) @@ ("message-timestamp" :> t)
      @@ ("client-ref" :> c) :
      s \in SCTSValues, t \in TimestampValues, c \in ClientReferences }

\* The values as carried: every field present, or the empty ones left out.
ReceiptPayloads == ReceiptValues \cup {NonEmpty(v) : v \in ReceiptValues}

\* Receipts from the provider, each content type carrying its own encoding.
ProviderReceipts ==
  UNION { {Request(Trusted, "GET", ContentType(FormType), Encoded(v), NoBody, 0)}
            \cup {Post(Trusted, ContentType(FormType), FormBody(v),
                        length(FormBody(v)))}
            \cup {Post(Trusted, ContentType(JSONType), JSONBody(v),
                        length(JSONBody(v)))} :
          v \in ReceiptPayloads }

\* A few payloads under every remote address, header and body kind.
SampleReceipts ==
  { NoFields,
    PassThrough @@ ("scts" :> "2205051435")
      @@ ("message-timestamp" :> "2022-05-05 14:35:48")
      @@ ("client-ref" :> "2301020304") }

OtherReceipts ==
  UNION { {Request(a, "GET", h, Encoded(v), NoBody, 0)}
            \cup UNION { {Post(a, h, b, n) : n \in Lengths(b)} :
                          b \in {FormBody(v), BadFormBody(v), JSONBody(v),
                                 TextBody} } :
          a \in RemoteAddrs, h \in Headers, v \in SampleReceipts }

DeliveryRequests == ProviderReceipts \cup OtherReceipts

\* The fields of an inbound message that are copied through.
MessageEnvelope ==
  ("to" :> "46700009") @@ ("msisdn" :> "46700001") @@
  ("network-code" :> "24001") @@ ("messageId" :> "0B000002") @@
  ("keyword" :> "HELLO")

Types == {"", "text", "unicode", "binary", "voice"}

\* text, data and udh together.
Contents ==
  { ("text" :> "Hello") @@ ("data" :> "0011") @@ ("udh" :> "050003"),
    ("text" :> "100%") @@ ("data" :> "0011") @@ ("udh" :> "%"),
    ("text" :> "a+b") @@ ("data" :> "%zz") @@ ("udh" :> "050003") }

MessageTimestamps ==
  {"", "2020-01-01 10:00:00", "2020-01-01+10%3A00%3A00", "%",
   "2020-01-01T10:00:00"}

\* concat, concat-ref, concat-total and concat-part together.
Concats ==
  { ("concat" :> "") @@ ("concat-ref" :> "") @@ ("concat-total" :> "") @@
      ("concat-part" :> ""),
    ("concat" :> "true") @@ ("concat-ref" :> "r7") @@ ("concat-total" :> "3")
      @@ ("concat-part" :> "1"),
    ("concat" :> "true") @@ ("concat-ref" :> "r7")
      @@ ("concat-total" :> "abc") @@ ("concat-part" :> "1"),
    ("concat" :> "true") @@ ("concat-ref" :> "r7") @@ ("concat-total" :> "3")
      @@ ("concat-part" :> ""),
    ("concat" :> "false") @@ ("concat-ref" :> "r7")
      @@ ("concat-total" :> "abc") @@ ("concat-part" :> "x") }

\* The handler reads the concat fields last and whatever the type is: every
\* type, content and timestamp is sent without them, and every timestamp and
\* every concat profile with a text message.
NoConcat ==
  ("concat" :> "") @@ ("concat-ref" :> "") @@ ("concat-total" :> "") @@
    ("concat-part" :> "")

MessageValues ==
  { MessageEnvelope @@ ("type" :> ty) @@ c @@ ("message-timestamp" :> t)
      @@ NoConcat :
      ty \in Types, c \in Contents, t \in MessageTimestamps }
  \cup
  { MessageEnvelope @@ ("type" :> "text") @@ ("text" :> "Hello")
      @@ ("data" :> "0011") @@ ("udh" :> "050003")
      @@ ("message-timestamp" :> t) @@ cc :
      t \in MessageTimestamps, cc \in Concats }

\* Messages from the provider: the fields in the query string of a GET.
ProviderMessages ==
  { Request(Trusted, "GET", NoHeader, Encoded(NonEmpty(v)), NoBody, 0) :
      v \in MessageValues }

SampleMessages ==
  { NoFields,
    MessageEnvelope @@ ("type" :> "text") @@ ("text" :> "Hello")
      @@ ("message-timestamp" :> "2020-01-01 10:00:00") }

\* A few payloads under every remote address and header, carried in the
\* query string, in a form body, or in the query string with a form body
\* that gives another type.
OtherMessages ==
  UNION { {Request(a, "GET", h, Encoded(NonEmpty(v)), NoBody, 0)}
            \cup UNION { {Post(a, h, b, n) : n \in Lengths(b)} :
                          b \in {FormBody(NonEmpty(v)), TextBody} }
            \cup {Request(a, "POST", h, Encoded(NonEmpty(v)), b, length(b)) :
                    b \in {FormBody("type" :> "binary"),
                           BadFormBody("type" :> "unicode")}} :
          a \in RemoteAddrs, h \in Headers, v \in SampleMessages }

MessageRequests == ProviderMessages \cup OtherMessages

(***************************************************************************)
(* The server: one handler, built by one of the two constructors, serving  *)
(* one request at a time, and the caller's goroutine receiving from out    *)
(***************************************************************************)
VARIABLES
  handler,    \* the constructor that built the handler
  verifyIPs,  \* the constructor's verifyIPs argument
  out,        \* the constructor's out argument: the channel's buffer
  req,        \* the request being served
  w,          \* what the handler wrote to the ResponseWriter
  m,          \* the record the handler passed to out for this request
  ipStr,      \* IsTrustedIP's argument
  trusted,    \* what IsTrustedIP returned for it
  op,         \* the sending operation the caller uses
  message,    \* the caller's message record, or the operation's arguments
  call,       \* the call under way: the client's mode and the transport's fate
  sent,       \* the HTTP requests the call has handed to the transport
  result,     \* what the call returned, or that it panicked
  callee,     \* the function of the package a caller calls on its own
  given,      \* the arguments it is called with
  returned,   \* what it returned
  capacity,   \* the capacity of out when handler invocations run concurrently
  serving,    \* each concurrent invocation: where it is, its request, what
              \* it wrote and the record it decoded
  received    \* the records the consumer has received from out, in order

serverVars == << handler, verifyIPs, out, req, w, m >>

trustVars == << ipStr, trusted >>

clientVars == << op, message, call, sent, result >>

packageVars == << callee, given, returned >>

concurrentVars == << capacity, serving, received >>

vars == << serverVars, trustVars, clientVars, packageVars, concurrentVars >>

\* No call is under way.
NoCall == [called |-> FALSE]

\* No sending operation is in use.
ClientIdle ==
  /\ op = "none"
  /\ message = Nil
  /\ call = NoCall
  /\ sent = << >>
  /\ result = NoCall

\* No function of the package is called on its own.
PackageIdle ==
  /\ callee = "none"
  /\ given = Nil
  /\ returned = NoCall

\* No handler invocations run concurrently.
ConcurrentIdle ==
  /\ capacity = 0
  /\ serving = << >>
  /\ received = << >>

NoRequest == [Method |-> "none"]

Init ==
  /\ handler \in {"NewDeliveryHandler", "NewMessageHandler"}
  /\ verifyIPs \in BOOLEAN
  /\ out = << >>
  /\ req = NoRequest
  /\ w = NoResponse
  /\ m = Nil
  /\ ipStr = ""
  /\ trusted = NoCall
  /\ ClientIdle
  /\ PackageIdle
  /\ ConcurrentIdle

\* One run of the handler function on request r with outcome o: "out <- m"
\* completes only when the channel has room.
Serve(r, o) ==
  /\ req = NoRequest
  /\ o.m # Nil => Len(out) < ChanCap
  /\ req' = r
  /\ w' = o.w
  /\ m' = o.m
  /\ out' = IF o.m # Nil THEN Append(out, o.m) ELSE out
  /\ UNCHANGED << handler, verifyIPs, trustVars, clientVars, packageVars,
               concurrentVars >>

NewDeliveryHandler ==
  /\ handler = "NewDeliveryHandler"
  /\ \E r \in DeliveryRequests : Serve(r, deliveryHandlerFunc(verifyIPs, r))

NewMessageHandler ==
  /\ handler = "NewMessageHandler"
  /\ \E r \in MessageRequests : Serve(r, messageHandlerFunc(verifyIPs, r))

\* The handler function has returned and the server has sent the response.
Return ==
  /\ req # NoRequest
  /\ req' = NoRequest
  /\ w' = NoResponse
  /\ m' = Nil
  /\ UNCHANGED << handler, verifyIPs, out, trustVars, clientVars, packageVars,
               concurrentVars >>

\* The caller's goroutine receives the next record from out.
Receive ==
  /\ out # << >>
  /\ out' = Tail(out)
  /\ UNCHANGED << handler, verifyIPs, req, w, m, trustVars, clientVars, packageVars,
               concurrentVars >>

Next == NewDeliveryHandler \/ NewMessageHandler \/ Return \/ Receive

Spec == Init /\ [][Next]_vars

(***************************************************************************)
(* Properties                                                              *)
(***************************************************************************)
(***************************************************************************)
(* IsTrustedIP on its own: one call on one address                         *)
(***************************************************************************)
DecimalDigits == << "0", "1", "2", "3", "4", "5", "6", "7", "8", "9" >>

\* The decimal text of a natural number.
RECURSIVE Itoa(_)
Itoa(n) ==
  IF n < 10 THEN DecimalDigits[n + 1]
  ELSE Itoa(n \div 10) \o DecimalDigits[(n % 10) + 1]

\* The text of the address with the four octets q.
Dotted(q) ==
  Itoa(q[1]) \o "." \o Itoa(q[2]) \o "." \o Itoa(q[3]) \o "." \o Itoa(q[4])

\* The first three octets of the four networks and of some others.
Prefixes ==
  { << 174, 37, 245 >>, << 174, 36, 197 >>, << 173, 193, 199 >>,
    << 119, 81, 44 >>, << 8, 8, 8 >>, << 174, 37, 244 >>, << 119, 81, 45 >> }

\* Last octets on both sides of every network's first and last address.
LastOctets == {0, 8, 15, 16, 31, 32, 33, 39, 40, 191, 192, 207, 208, 255}

Quads == { << p[1], p[2], p[3], d >> : p \in Prefixes, d \in LastOctets }

\* Strings that are no IP address.
Malformed ==
  { "", "nexmo", "174.37.245", "174.37.245.", "174.37.245.33.1",
    "174.37.245.256", "174.37.245.3x", "174.37.245.33:4711",
    "174.37.245.32/29", " 174.37.245.33", "-1.37.245.33" }

Addresses == { Dotted(q) : q \in Quads } \cup Malformed

ServerIdle ==
  /\ handler = "none"
  /\ verifyIPs = FALSE
  /\ out = << >>
  /\ req = NoRequest
  /\ w = NoResponse
  /\ m = Nil

TrustInit ==
  /\ ServerIdle
  /\ ClientIdle
  /\ PackageIdle
  /\ ConcurrentIdle
  /\ ipStr \in Addresses
  /\ trusted = NoCall

\* One call of IsTrustedIP.
IsTrustedIPCall ==
  /\ trusted = NoCall
  /\ trusted' = [called |-> TRUE, result |-> IsTrustedIP(ipStr)]
  /\ UNCHANGED << serverVars, ipStr, clientVars, packageVars,
               concurrentVars >>

\* The caller drops the result.
IsTrustedIPDone ==
  /\ trusted # NoCall
  /\ trusted' = NoCall
  /\ UNCHANGED << serverVars, ipStr, clientVars, packageVars,
               concurrentVars >>

TrustNext == IsTrustedIPCall \/ IsTrustedIPDone

TrustSpec == TrustInit /\ [][TrustNext]_vars


(***************************************************************************)
(* The sending operations: client, transport, responses                    *)
(*                                                                         *)
(* A call of a sending operation is one step.  Its outcome is a record     *)
(*   msg     the caller's message record after the call                    *)
(*   sent    the HTTP requests handed to the transport, in order           *)
(*   result  [panic, resp, err]: what the call returned, or that it        *)
(*           panicked                                                      *)
(* The fate `do` of the HTTP exchange is the transport's choice: it fails  *)
(* (no response, an error), or it yields a response whose body is `body`   *)
(* and whose reading fails after `body` when readErr is set.               *)
(***************************************************************************)
apiRoot == "https://rest.nexmo.com"

\* The root of the verify endpoints.
apiRootv2 == "apiRootv2"

APIKey == "key-1"

APISecret == "secret-1"

\* The client NewClient builds, with its signing mode as given.
Client(useOauth) ==
  [apiKey |-> APIKey, apiSecret |-> APISecret, useOauth |-> useOauth]

\* errors.New
New(text) == [Message |-> text]

\* A call's return values.
returns(resp, err) == [panic |-> FALSE, resp |-> resp, err |-> err]

\* A call ended by a run-time panic.
panics == [panic |-> TRUE]

\* What a call leaves behind.
Outcome(record, requests, res) ==
  [msg |-> record, sent |-> requests, result |-> res]

\* The request of http.NewRequest with the two headers every operation adds.
NewRequest(method, url, contentType, body) ==
  [Method |-> method, URL |-> url,
   Header |-> ("Accept" :> << JSONType >>) @@
              (IF contentType = "" THEN NoHeader ELSE ContentType(contentType)),
   Body |-> body]

\* The error of a transport that could not complete the exchange.
TransportError == New("dial tcp: connection refused")

\* The error of a response body that breaks off.
ReadError == New("unexpected EOF")

\* (*http.Client).Do: a failed exchange has no response.
Do(r, do) ==
  IF do.kind = "fail" THEN [resp |-> Nil, err |-> TransportError]
  ELSE [resp |-> [Body |-> [data |-> do.body, err |-> do.readErr]],
        err |-> Nil]

\* ioutil.ReadAll: the bytes read, and the error that ended the reading.
ReadAll(Body) ==
  [body |-> Body.data, err |-> IF Body.err THEN ReadError ELSE Nil]

\* Response bodies: a message response, a balance, and three that are not
\* JSON (an error page, nothing, a message response that breaks off).
MessageResponseText ==
  "{\"message-count\":\"1\",\"messages\":[{\"status\":\"0\",\"to\":\"46700001\"}]}"

BalanceText == "{\"value\":12}"

ErrorPage == "<html>502 Bad Gateway</html>"

BrokenOff == "{\"message-cou"

\* The zero value and the decoded value of each response type.
ZeroValue ==
  [MessageResponse |-> [MessageCount |-> "", Messages |-> << >>],
   AccountBalance  |-> [Value |-> 0],
   VerifyResponse  |-> [Status |-> 0, RequestID |-> ""]]

\* json.Unmarshal of a response body into a nil pointer to `type`: a JSON
\* object fills the fields it names and leaves the others zero; text that is
\* no JSON value is an error and leaves the pointer nil.
Unmarshal(body, type) ==
  IF body = MessageResponseText
    THEN [err |-> Nil,
          val |-> IF type = "MessageResponse"
                  THEN [MessageCount |-> "1",
                        Messages |-> << [Status |-> "0", To |-> "46700001"] >>]
                  ELSE ZeroValue[type]]
  ELSE IF body = BalanceText
    THEN [err |-> Nil,
          val |-> IF type = "AccountBalance" THEN [Value |-> 12]
                  ELSE ZeroValue[type]]
  ELSE [err |-> New(IF body = "" THEN "unexpected end of JSON input"
                    ELSE IF body = BrokenOff THEN "unexpected end of JSON input"
                    ELSE "invalid character '<' looking for beginning of value"),
        val |-> Nil]

\* What the transport may do with a request.
Fail == [kind |-> "fail"]

Respond(body, readErr) ==
  [kind |-> "respond", body |-> body, readErr |-> readErr]

Transports ==
  {Fail, Respond(BrokenOff, TRUE)} \cup
  {Respond(b, FALSE) : b \in {MessageResponseText, BalanceText, ErrorPage, ""}}

(***************************************************************************)
(* Conn and the first Client: sendMessage and GetBalance                   *)
(***************************************************************************)
\* string(1): the one-byte string whose byte is 1.
string1 == "<U+0001>"

\* Conn.sendMessage, Client.sendMessage, GetBalance and the first SMS.Send
\* carry out the exchange alike: "defer resp.Body.Close()" comes before the
\* test of err, and evaluating resp.Body of the nil response of a failed
\* exchange is a nil pointer dereference; the error of ReadAll is dropped.
exchange(r, do, type) ==
  LET d == Do(r, do) IN
  IF d.resp = Nil THEN panics
  ELSE IF d.err # Nil THEN returns(Nil, d.err)
  ELSE LET body == ReadAll(d.resp.Body).body
           u    == Unmarshal(body, type)
       IN  IF u.err # Nil THEN returns(Nil, u.err) ELSE returns(u.val, Nil)

\* Conn.sendMessage: no argument is validated.
Conn_sendMessage(nexmo, args, is_flash_message, do) ==
  LET values ==
        ("api_key" :> nexmo.apiKey) @@ ("api_secret" :> nexmo.apiSecret) @@
        ("type" :> "text") @@ ("to" :> args.to) @@ ("from" :> args.from) @@
        ("text" :> args.text) @@ ("client_ref" :> args.clientReference) @@
        (IF args.statusReportRequired
           THEN "status_report_req" :> string1 ELSE NoFields) @@
        (IF is_flash_message THEN "message_class" :> "0" ELSE NoFields)
      r == NewRequest("POST", "https://rest.nexmo.com/sms/json", FormType,
                      FormBody(values))
  IN  Outcome(args, << r >>, exchange(r, do, "MessageResponse"))

\* GetBalance of Conn and of Account: the balance, 0.0 with an error.
GetBalance(nexmo, do) ==
  LET r == NewRequest("GET",
             apiRoot \o "/account/get-balance/" \o nexmo.apiKey \o "/"
               \o nexmo.apiSecret, "", NoBody)
      d == Do(r, do)
  IN  Outcome(Nil, << r >>,
        IF d.resp = Nil THEN panics
        ELSE IF d.err # Nil THEN returns(0, d.err)
        ELSE LET body == ReadAll(d.resp.Body).body
                 u    == Unmarshal(body, "AccountBalance")
             IN  IF u.err # Nil THEN returns(0, u.err)
                 ELSE returns(u.val.Value, Nil))

\* Message identifiers to be used with sendMessage().
sms == 0

flash == 1

ussdPush == 2

ussdPrompt == 3

\* Client.sendMessage: the payload is encoded before the switch on class,
\* so what the switch sets is not part of it.
Client_sendMessage(nexmo, args, class, do) ==
  IF Len(args.clientReference) > 40
  THEN Outcome(args, << >>, returns(Nil, New("client reference too long")))
  ELSE
    LET values ==
          ("api_key" :> nexmo.apiKey) @@ ("api_secret" :> nexmo.apiSecret) @@
          ("type" :> "text") @@ ("to" :> args.to) @@ ("from" :> args.from) @@
          ("text" :> args.text) @@ ("client_ref" :> args.clientReference) @@
          (IF args.statusReportRequired
             THEN "status_report_req" :> string1 ELSE NoFields)
        valuesReader == FormBody(values)
        endpoint == IF class = ussdPush THEN "/ussd/json"
                    ELSE IF class = ussdPrompt THEN "/ussd-prompt/json"
                    ELSE "/sms/json"
        r == NewRequest("POST", apiRoot \o endpoint, FormType, valuesReader)
    IN  Outcome(args, << r >>, exchange(r, do, "MessageResponse"))

(***************************************************************************)
(* SMS.Send, in its form-encoded and its JSON variants                     *)
(***************************************************************************)
\* SMS message classes.
Flash == 0

Standard == 1

\* SMS message types of the form-encoded variant: Text = iota + 1, ...
FormTypes ==
  [Text |-> 1, Binary |-> 2, WAPPush |-> 3, Unicode |-> 4, VCal |-> 5,
   VCard |-> 6]

\* SMS message types of the JSON variants.
Text == "text"

Binary == "binary"

WAPPush == "wappush"

Unicode == "unicode"

\* The pair key, value when present holds, no pair otherwise.
Pair(present, key, value) == IF present THEN key :> value ELSE NoFields

\* A call that ends in validation, before any request is built.
Invalid(msg, text) == Outcome(msg, << >>, returns(Nil, New(text)))

\* SMS.Send, form-encoded: the payload is built from url.Values and the
\* exchange is carried out as in sendMessage.
SMS_Send_Form(c, msg, do) ==
  IF Len(msg.From) <= 0 THEN Invalid(msg, "Invalid From field specified")
  ELSE IF Len(msg.To) <= 0 THEN Invalid(msg, "Invalid To field specified")
  ELSE IF Len(msg.ClientReference) > 40
    THEN Invalid(msg, "Client reference too long")
  ELSE IF msg.Type \in {0, FormTypes.Text} /\ Len(msg.Text) <= 0
    THEN Invalid(msg, "Invalid message text")
  ELSE IF msg.Type = FormTypes.Binary /\ (Len(msg.UDH) = 0 \/ Len(msg.Body) = 0)
    THEN Invalid(msg, "Invalid binary message")
  ELSE
    LET typed ==
          IF msg.Type \in {0, FormTypes.Text}
            THEN ("type" :> "text") @@ ("text" :> msg.Text)
          ELSE IF msg.Type = FormTypes.Binary THEN "type" :> "binary"
          ELSE IF msg.Type = FormTypes.WAPPush THEN "type" :> "wappush"
          ELSE IF msg.Type = FormTypes.Unicode THEN "type" :> "unicode"
          ELSE IF msg.Type = FormTypes.VCal THEN "type" :> "vcal"
          ELSE IF msg.Type = FormTypes.VCard THEN "type" :> "vcard"
          ELSE NoFields
        values ==
          ("to" :> msg.To) @@ ("from" :> msg.From) @@ typed @@
          (IF ~c.useOauth
             THEN ("api_key" :> c.apiKey) @@ ("api_secret" :> c.apiSecret)
             ELSE NoFields) @@
          Pair(msg.StatusReportRequired, "status_report_req", "1") @@
          Pair(msg.ClientReference # "", "client_ref", msg.ClientReference) @@
          Pair(msg.NetworkCode # "", "network-code", msg.NetworkCode) @@
          Pair(msg.VCard # "", "vcard", msg.VCard) @@
          Pair(msg.VCal # "", "vcal", msg.VCal) @@
          Pair(msg.TTL # 0, "ttl", Itoa(msg.TTL)) @@
          Pair(msg.Class # 0, "message-class", Itoa(msg.Class))
        r == NewRequest("POST", apiRoot \o "/sms/json", FormType,
                        FormBody(values))
    IN  Outcome(msg, << r >>, exchange(r, do, "MessageResponse"))

\* A faulty validation: the client reference is looked at first.
invalid_ReferenceFirst(msg) ==
  IF Len(msg.ClientReference) > 40 THEN "Client reference too long"
  ELSE IF Len(msg.From) <= 0 THEN "Invalid From field specified"
  ELSE IF Len(msg.To) <= 0 THEN "Invalid To field specified"
  ELSE ""

\* The validation the JSON variants of SMS.Send start with: the text of the
\* first check that fails, "" when none does.
invalid(msg) ==
  IF Len(msg.From) <= 0 THEN "Invalid From field specified"
  ELSE IF Len(msg.To) <= 0 THEN "Invalid To field specified"
  ELSE IF Len(msg.ClientReference) > 40 THEN "Client reference too long"
  ELSE IF msg.Type = Unicode /\ Len(msg.Text) <= 0 THEN "Invalid message text"
  ELSE IF msg.Type = Binary /\ (Len(msg.UDH) = 0 \/ Len(msg.Body) = 0)
    THEN "Invalid binary message"
  ELSE IF msg.Type = WAPPush /\ (Len(msg.URL) = 0 \/ Len(msg.Title) = 0)
    THEN "Invalid WAP Push parameters"
  ELSE ""

\* A faulty injection: the credentials are written in either mode.
withCredentials_Always(c, msg) ==
  [msg EXCEPT !.apiKey = c.apiKey, !.apiSecret = c.apiSecret]

\* "if !c.client.useOauth { msg.apiKey = ...; msg.apiSecret = ... }": in the
\* signing mode the record keeps what it holds.
withCredentials(c, msg) ==
  IF ~c.useOauth
  THEN [msg EXCEPT !.apiKey = c.apiKey, !.apiSecret = c.apiSecret]
  ELSE msg

\* (*SMSMessage).MarshalJSON: api_key and api_secret always, then the
\* exported fields, those tagged omitempty only when they are not zero.
MarshalJSON(self) ==
  ("api_key" :> self.apiKey) @@ ("api_secret" :> self.apiSecret) @@
  ("from" :> self.From) @@ ("to" :> self.To) @@ ("type" :> self.Type) @@
  Pair(self.Text # "", "text", self.Text) @@
  Pair(self.StatusReportRequired # 0, "status-report-req",
       self.StatusReportRequired) @@
  Pair(self.ClientReference # "", "client-ref", self.ClientReference) @@
  Pair(self.NetworkCode # "", "network-code", self.NetworkCode) @@
  Pair(self.VCard # "", "vcrad", self.VCard) @@
  Pair(self.VCal # "", "vcal", self.VCal) @@
  Pair(self.TTL # 0, "ttl", self.TTL) @@
  Pair(self.Class # 0, "message-class", self.Class) @@
  Pair(self.Callback # "", "callback", self.Callback) @@
  Pair(self.Body # "", "body", self.Body) @@
  Pair(self.UDH # "", "udh", self.UDH) @@
  Pair(self.Title # "", "title", self.Title) @@
  Pair(self.URL # "", "url", self.URL) @@
  Pair(self.Validity # 0, "validity", self.Validity)

\* SMS.Send, JSON, before the typed errors: the errors of the transport and
\* of json.Unmarshal are returned as they are, that of ReadAll is dropped.
SMS_Send_JSON(c, msg, do) ==
  IF invalid(msg) # "" THEN Invalid(msg, invalid(msg))
  ELSE
    LET sending == withCredentials(c, msg)
        r == NewRequest("POST", apiRoot \o "/sms/json", JSONType,
                        JSONBody(MarshalJSON(sending)))
        d == Do(r, do)
    IN  Outcome(sending, << r >>,
          IF d.err # Nil THEN returns(Nil, d.err)
          ELSE LET body == ReadAll(d.resp.Body).body
                   u    == Unmarshal(body, "MessageResponse")
               IN  IF u.err # Nil THEN returns(Nil, u.err)
                   ELSE returns(u.val, Nil))

\* The validation of the first JSON variant of SMS.Send, whose switch has
\* cases for Text and Binary only.
invalidFirst(msg) ==
  IF Len(msg.From) <= 0 THEN "Invalid From field specified"
  ELSE IF Len(msg.To) <= 0 THEN "Invalid To field specified"
  ELSE IF Len(msg.ClientReference) > 40 THEN "Client reference too long"
  ELSE IF msg.Type = Text /\ Len(msg.Text) <= 0 THEN "Invalid message text"
  ELSE IF msg.Type = Binary /\ (Len(msg.UDH) = 0 \/ Len(msg.Body) = 0)
    THEN "Invalid binary message"
  ELSE ""

\* json.Marshal of the SMSMessage of the first JSON variant, whose
\* credential fields are exported.
MarshalFirst(self) ==
  ("api_key" :> self.ApiKey) @@ ("api_secret" :> self.ApiSecret) @@
  ("from" :> self.From) @@ ("to" :> self.To) @@ ("type" :> self.Type) @@
  Pair(self.Text # "", "text", self.Text) @@
  Pair(self.StatusReportRequired # 0, "status-report-req",
       self.StatusReportRequired) @@
  Pair(self.ClientReference # "", "client-ref", self.ClientReference) @@
  Pair(self.NetworkCode # "", "network-code", self.NetworkCode) @@
  Pair(self.VCard # "", "vcrad", self.VCard) @@
  Pair(self.VCal # "", "vcal", self.VCal) @@
  Pair(self.TTL # 0, "ttl", self.TTL) @@
  Pair(self.Class # 0, "message-class", self.Class) @@
  Pair(self.Body # "", "body", self.Body) @@
  Pair(self.UDH # "", "udh", self.UDH)

\* SMS.Send, JSON, in its first variant: "msg.ApiKey = c.client.apiKey"
\* when the client does not sign, then the exchange as in SMS_Send_JSON.
SMS_Send_First(c, msg, do) ==
  IF invalidFirst(msg) # "" THEN Invalid(msg, invalidFirst(msg))
  ELSE
    LET sending ==
          IF ~c.useOauth
          THEN [msg EXCEPT !.ApiKey = c.apiKey, !.ApiSecret = c.apiSecret]
          ELSE msg
        r == NewRequest("POST", apiRoot \o "/sms/json", JSONType,
                        JSONBody(MarshalFirst(sending)))
        d == Do(r, do)
    IN  Outcome(sending, << r >>,
          IF d.err # Nil THEN returns(Nil, d.err)
          ELSE LET body == ReadAll(d.resp.Body).body
                   u    == Unmarshal(body, "MessageResponse")
               IN  IF u.err # Nil THEN returns(Nil, u.err)
                   ELSE returns(u.val, Nil))

SendConnectionError(Message, Err, Body, Debug) ==
  [type |-> "SendConnectionError", Message |-> Message, Err |-> Err,
   Body |-> Body, Debug |-> Debug]

\* A faulty InvalidResponseError: the body is not kept.
InvalidResponseError_NoBody(Message, Err, Body) ==
  [type |-> "InvalidResponseError", Message |-> Message, Err |-> Err,
   Body |-> ""]

InvalidResponseError(Message, Err, Body) ==
  [type |-> "InvalidResponseError", Message |-> Message, Err |-> Err,
   Body |-> Body]

\* What getRequestTrace recorded of an exchange that failed: the connection
\* attempt and its failure.
Debug ==
  << "Initiating connecting to rest.nexmo.com:443",
     "Error connecting to tcp rest.nexmo.com:443 (connection refused)" >>

\* SMS.Send as it is now.
SMS_Send(c, msg, do) ==
  IF invalid(msg) # "" THEN Invalid(msg, invalid(msg))
  ELSE
    LET sending == withCredentials(c, msg)
        r == NewRequest("POST", apiRoot \o "/sms/json", JSONType,
                        JSONBody(MarshalJSON(sending)))
        d == Do(r, do)
    IN  Outcome(sending, << r >>,
          IF d.err # Nil
          THEN returns(Nil, SendConnectionError("nexmo http send failed",
                                                d.err, "", Debug))
          ELSE LET read == ReadAll(d.resp.Body)
                   u    == Unmarshal(read.body, "MessageResponse")
               IN  IF read.err # Nil
                   THEN returns(Nil, InvalidResponseError(
                          "failed to read response from Nexmo", read.err,
                          read.body))
                   ELSE IF u.err # Nil
                   THEN returns(Nil, InvalidResponseError(
                          "failed to unmarshal response from Nexmo", u.err,
                          read.body))
                   ELSE returns(u.val, Nil))

(***************************************************************************)
(* USSD.Send and Verification.Send, Check, Search                          *)
(***************************************************************************)
\* The exchange as USSD.Send and the Verification operations carry it out:
\* the errors of the transport, of ReadAll and of json.Unmarshal are each
\* returned as they are.
exchangeChecked(r, do, type) ==
  LET d == Do(r, do) IN
  IF d.err # Nil THEN returns(Nil, d.err)
  ELSE LET read == ReadAll(d.resp.Body)
           u    == Unmarshal(read.body, type)
       IN  IF read.err # Nil THEN returns(Nil, read.err)
           ELSE IF u.err # Nil THEN returns(Nil, u.err)
           ELSE returns(u.val, Nil)

USSD_Send(c, msg, do) ==
  IF Len(msg.From) <= 0 THEN Invalid(msg, "invalid From field specified")
  ELSE IF Len(msg.To) <= 0 THEN Invalid(msg, "invalid To field specified")
  ELSE IF Len(msg.ClientReference) > 40
    THEN Invalid(msg, "client reference too long")
  ELSE IF Len(msg.Text) <= 0 THEN Invalid(msg, "invalid message text")
  ELSE
    LET values ==
          ("to" :> msg.To) @@ ("from" :> msg.From) @@ ("text" :> msg.Text) @@
          (IF ~c.useOauth
             THEN ("api_key" :> c.apiKey) @@ ("api_secret" :> c.apiSecret)
             ELSE NoFields) @@
          Pair(msg.StatusReportRequired, "status_report_req", "1") @@
          Pair(msg.ClientReference # "", "client_ref", msg.ClientReference) @@
          Pair(msg.NetworkCode # "", "network-code", msg.NetworkCode)
        endpoint == IF msg.Prompt THEN "/ussd-prompt/json" ELSE "/ussd/json"
        r == NewRequest("POST", apiRoot \o endpoint, FormType, FormBody(values))
    IN  Outcome(msg, << r >>, exchangeChecked(r, do, "MessageResponse"))

\* (*VerifyMessageRequest).MarshalJSON
VerifyMessageRequest_MarshalJSON(self) ==
  ("api_key" :> self.apiKey) @@ ("api_secret" :> self.apiSecret) @@
  ("number" :> self.Number) @@ ("brand" :> self.Brand) @@
  Pair(self.SenderID # "", "sender_id", self.SenderID) @@
  Pair(self.Country # "", "country", self.Country) @@
  Pair(self.Language # "", "lg", self.Language) @@
  Pair(self.CodeLength # 0, "code_length", self.CodeLength) @@
  Pair(self.PINExpiry # 0, "pin_expiry", self.PINExpiry) @@
  Pair(self.NextEventWait # 0, "next_event_wait", self.NextEventWait)

Verification_Send(c, msg, do) ==
  IF Len(msg.Number) = 0 THEN Invalid(msg, "Invalid Number field specified")
  ELSE IF Len(msg.Brand) = 0 THEN Invalid(msg, "Invalid Brand field specified")
  ELSE
    LET sending == withCredentials(c, msg)
        r == NewRequest("POST", apiRootv2 \o "/verify/json", JSONType,
                        JSONBody(VerifyMessageRequest_MarshalJSON(sending)))
    IN  Outcome(sending, << r >>, exchangeChecked(r, do, "VerifyResponse"))

\* (*VerifyCheckRequest).MarshalJSON
VerifyCheckRequest_MarshalJSON(self) ==
  ("api_key" :> self.apiKey) @@ ("api_secret" :> self.apiSecret) @@
  ("request_id" :> self.RequestID) @@ ("code" :> self.Code) @@
  Pair(self.IPAddress # "", "ip_address", self.IPAddress)

Verification_Check(c, msg, do) ==
  IF Len(msg.RequestID) = 0
    THEN Invalid(msg, "Invalid RequestID field specified")
  ELSE IF Len(msg.Code) = 0 THEN Invalid(msg, "Invalid Code field specified")
  ELSE
    LET sending == withCredentials(c, msg)
        r == NewRequest("POST", apiRootv2 \o "/verify/check/json", JSONType,
                        JSONBody(VerifyCheckRequest_MarshalJSON(sending)))
    IN  Outcome(sending, << r >>, exchangeChecked(r, do, "VerifyResponse"))

\* (*VerifySearchRequest).MarshalJSON
VerifySearchRequest_MarshalJSON(self) ==
  ("api_key" :> self.apiKey) @@ ("api_secret" :> self.apiSecret) @@
  Pair(self.RequestID # "", "request_id", self.RequestID)

\* Verification.Search validates nothing.
Verification_Search(c, msg, do) ==
  LET sending == withCredentials(c, msg)
      r == NewRequest("POST", apiRootv2 \o "/verify/search/json", JSONType,
                      JSONBody(VerifySearchRequest_MarshalJSON(sending)))
  IN  Outcome(sending, << r >>, exchangeChecked(r, do, "VerifyResponse"))

(***************************************************************************)
(* The callers of the sending operations                                   *)
(***************************************************************************)
\* Client references of 0, 40 and 41 characters.
Ref40 == "gonexmo-test-1234567890-1234567890-12345"

Ref41 == Ref40 \o "6"

ClientReferenceValues == {"", Ref40, Ref41}

\* The arguments of SendTextMessage and its like.
SendArguments ==
  [from : {"", "Acme"}, to : {"46700001"}, text : {"Hello"},
   clientReference : ClientReferenceValues, statusReportRequired : BOOLEAN]

\* The fields of an SMSMessage the callers here leave zero.
SMSDefaults ==
  [NetworkCode |-> "", VCard |-> "", VCal |-> "", TTL |-> 0, Callback |-> "",
   Body |-> "", UDH |-> "", Title |-> "", URL |-> "", Validity |-> 0]

\* Records r extended by the fields of d.
With(r, d) == [k \in DOMAIN r \cup DOMAIN d |-> IF k \in DOMAIN r THEN r[k] ELSE d[k]]

\* SMSMessages of the form-encoded variant: Type is a number, with 0 for
\* "not set", and StatusReportRequired a flag.
FormSMSMessages ==
  { With(s, SMSDefaults) :
      s \in [From : {"", "Acme"}, To : {"", "46700001"},
             Type : {0, FormTypes.Text, FormTypes.Unicode},
             Text : {"", "Hello"}, StatusReportRequired : BOOLEAN,
             ClientReference : ClientReferenceValues,
             Class : {Flash, Standard}] }

\* SMSMessages of the JSON variants, as the caller builds them: without
\* credentials.
SMSMessages ==
  { With(s, SMSDefaults) :
      s \in [apiKey : {""}, apiSecret : {""},
             From : {"", "Acme"}, To : {"", "46700001"},
             Type : {Text, Unicode}, Text : {"", "Hello"},
             StatusReportRequired : {0, 1},
             ClientReference : ClientReferenceValues,
             Class : {Flash, Standard}] }

\* SMSMessages of the first JSON variant.
FirstSMSMessages ==
  [ApiKey : {""}, ApiSecret : {""}, From : {"", "Acme"}, To : {"46700001"},
   Type : {Text, Unicode}, Text : {"", "Hello"}, StatusReportRequired : {0},
   ClientReference : {"", Ref41}, NetworkCode : {""}, VCard : {""},
   VCal : {""}, TTL : {0}, Class : {Standard}, Body : {""}, UDH : {""}]

USSDMessages ==
  [From : {"", "Acme"}, To : {"", "46700001"}, Text : {"", "*100#"},
   StatusReportRequired : BOOLEAN, ClientReference : ClientReferenceValues,
   NetworkCode : {""}, Prompt : BOOLEAN]

VerifyMessageRequests ==
  [apiKey : {""}, apiSecret : {""}, Number : {"", "46700001"},
   Brand : {"", "Acme"}, SenderID : {""}, Country : {""}, Language : {""},
   CodeLength : {0, 6}, PINExpiry : {0}, NextEventWait : {0}]

VerifyCheckRequests ==
  [apiKey : {""}, apiSecret : {""}, RequestID : {"", "req-1"},
   Code : {"", "1234"}, IPAddress : {""}]

VerifySearchRequests ==
  [apiKey : {""}, apiSecret : {""}, RequestID : {"", "req-1"}]

\* What each operation is called with.
Arguments ==
  [ Conn_SendTextMessage  |-> SendArguments,
    Conn_SendFlashMessage |-> SendArguments,
    Conn_GetBalance       |-> {Nil},
    SendTextMessage       |-> SendArguments,
    SendFlashMessage      |-> SendArguments,
    SendUssdPush          |-> SendArguments,
    SendUssdPrompt        |-> SendArguments,
    Account_GetBalance    |-> {Nil},
    SMS_Send_Form         |-> FormSMSMessages,
    SMS_Send_First        |-> FirstSMSMessages,
    SMS_Send_JSON         |-> SMSMessages,
    SMS_Send              |-> SMSMessages,
    USSD_Send             |-> USSDMessages,
    Verification_Send     |-> VerifyMessageRequests,
    Verification_Check    |-> VerifyCheckRequests,
    Verification_Search   |-> VerifySearchRequests ]

ClientInit ==
  /\ ServerIdle
  /\ PackageIdle
  /\ ConcurrentIdle
  /\ ipStr = ""
  /\ trusted = NoCall
  /\ op \in DOMAIN Arguments
  /\ message \in Arguments[op]
  /\ call = NoCall
  /\ sent = << >>
  /\ result = NoCall

\* One call on the caller's record, through a client in mode useOauth, the
\* exchange faring as do says; o is its outcome.
Call(useOauth, do, o) ==
  /\ call = NoCall
  /\ call' = [called |-> TRUE, useOauth |-> useOauth, do |-> do]
  /\ message' = o.msg
  /\ sent' = o.sent
  /\ result' = o.result
  /\ UNCHANGED << op, serverVars, trustVars, packageVars,
               concurrentVars >>

Conn_SendTextMessage_Call ==
  /\ op = "Conn_SendTextMessage"
  /\ \E do \in Transports :
      Call(FALSE, do,
           Conn_sendMessage(Client(FALSE), message, FALSE, do))

Conn_SendFlashMessage_Call ==
  /\ op = "Conn_SendFlashMessage"
  /\ \E do \in Transports :
      Call(FALSE, do,
           Conn_sendMessage(Client(FALSE), message, TRUE, do))

Conn_GetBalance_Call ==
  /\ op = "Conn_GetBalance"
  /\ \E do \in Transports :
      Call(FALSE, do, GetBalance(Client(FALSE), do))

SendTextMessage_Call ==
  /\ op = "SendTextMessage"
  /\ \E useOauth \in BOOLEAN, do \in Transports :
      Call(useOauth, do,
           Client_sendMessage(Client(useOauth), message, sms, do))

SendFlashMessage_Call ==
  /\ op = "SendFlashMessage"
  /\ \E useOauth \in BOOLEAN, do \in Transports :
      Call(useOauth, do,
           Client_sendMessage(Client(useOauth), message, flash, do))

SendUssdPush_Call ==
  /\ op = "SendUssdPush"
  /\ \E useOauth \in BOOLEAN, do \in Transports :
      Call(useOauth, do,
           Client_sendMessage(Client(useOauth), message, ussdPush, do))

SendUssdPrompt_Call ==
  /\ op = "SendUssdPrompt"
  /\ \E useOauth \in BOOLEAN, do \in Transports :
      Call(useOauth, do,
           Client_sendMessage(Client(useOauth), message, ussdPrompt, do))

Account_GetBalance_Call ==
  /\ op = "Account_GetBalance"
  /\ \E useOauth \in BOOLEAN, do \in Transports :
      Call(useOauth, do, GetBalance(Client(useOauth), do))

SMS_Send_Form_Call ==
  /\ op = "SMS_Send_Form"
  /\ \E useOauth \in BOOLEAN, do \in Transports :
      Call(useOauth, do,
           SMS_Send_Form(Client(useOauth), message, do))

SMS_Send_First_Call ==
  /\ op = "SMS_Send_First"
  /\ \E useOauth \in BOOLEAN, do \in Transports :
      Call(useOauth, do,
           SMS_Send_First(Client(useOauth), message, do))

SMS_Send_JSON_Call ==
  /\ op = "SMS_Send_JSON"
  /\ \E useOauth \in BOOLEAN, do \in Transports :
      Call(useOauth, do,
           SMS_Send_JSON(Client(useOauth), message, do))

SMS_Send_Call ==
  /\ op = "SMS_Send"
  /\ \E useOauth \in BOOLEAN, do \in Transports :
      Call(useOauth, do, SMS_Send(Client(useOauth), message, do))

USSD_Send_Call ==
  /\ op = "USSD_Send"
  /\ \E useOauth \in BOOLEAN, do \in Transports :
      Call(useOauth, do, USSD_Send(Client(useOauth), message, do))

Verification_Send_Call ==
  /\ op = "Verification_Send"
  /\ \E useOauth \in BOOLEAN, do \in Transports :
      Call(useOauth, do,
           Verification_Send(Client(useOauth), message, do))

Verification_Check_Call ==
  /\ op = "Verification_Check"
  /\ \E useOauth \in BOOLEAN, do \in Transports :
      Call(useOauth, do,
           Verification_Check(Client(useOauth), message, do))

Verification_Search_Call ==
  /\ op = "Verification_Search"
  /\ \E useOauth \in BOOLEAN, do \in Transports :
      Call(useOauth, do,
           Verification_Search(Client(useOauth), message, do))

\* The call has returned and the caller has looked at the result; a call
\* that panicked has ended the program.
Returned ==
  /\ call # NoCall
  /\ ~result.panic
  /\ call' = NoCall
  /\ sent' = << >>
  /\ result' = NoCall
  /\ UNCHANGED << op, message, serverVars, trustVars, packageVars,
               concurrentVars >>

ClientNext ==
  \/ Conn_SendTextMessage_Call
  \/ Conn_SendFlashMessage_Call
  \/ Conn_GetBalance_Call
  \/ SendTextMessage_Call
  \/ SendFlashMessage_Call
  \/ SendUssdPush_Call
  \/ SendUssdPrompt_Call
  \/ Account_GetBalance_Call
  \/ SMS_Send_Form_Call
  \/ SMS_Send_First_Call
  \/ SMS_Send_JSON_Call
  \/ SMS_Send_Call
  \/ USSD_Send_Call
  \/ Verification_Send_Call
  \/ Verification_Check_Call
  \/ Verification_Search_Call
  \/ Returned

ClientSpec == ClientInit /\ [][ClientNext]_vars

(***************************************************************************)
(* The timestamp parsers and the constructors, each called on its own      *)
(*                                                                         *)
(*   callee    the function called                                         *)
(*   given     its arguments                                               *)
(*   returned  NoCall, or [called, val, err]                               *)
(***************************************************************************)
\* The error of a timestamp no layout matches; it carries the string.
TimestampFormatError(s) == [type |-> "TimestampFormatError", Value |-> s]

\* What a parser returns: the instant and the error.
parseResult(s, p) ==
  IF p.err THEN [val |-> ZeroTime, err |-> TimestampFormatError(s)]
  ELSE [val |-> p.val, err |-> Nil]

\* A faulty parseSCTS: the empty string is parsed like any other.
parseSCTS_NoEmptyCase(s) == parseResult(s, ParseCompact(s))

\* parseSCTS: the compact yymmddHHMM form of the scts field; the empty
\* string is the zero instant.
parseSCTS(s) ==
  IF s = "" THEN [val |-> ZeroTime, err |-> Nil]
  ELSE parseResult(s, ParseCompact(s))

\* s ends in the literal lit.
endsWith(s, lit) ==
  Len(s) >= Len(lit) /\ SubSeq(s, Len(s) - Len(lit) + 1, Len(s)) = lit

\* s without its last n characters.
dropLast(s, n) == SubSeq(s, 1, Len(s) - n)

\* The day before and the day after a date.
dayBefore(t) ==
  IF t.day > 1 THEN [t EXCEPT !.day = t.day - 1]
  ELSE IF t.month > 1
    THEN [t EXCEPT !.month = t.month - 1,
                   !.day = daysIn(t.month - 1, t.year)]
  ELSE [t EXCEPT !.year = t.year - 1, !.month = 12, !.day = 31]

dayAfter(t) ==
  IF t.day < daysIn(t.month, t.year) THEN [t EXCEPT !.day = t.day + 1]
  ELSE IF t.month < 12 THEN [t EXCEPT !.month = t.month + 1, !.day = 1]
  ELSE [t EXCEPT !.year = t.year + 1, !.month = 1, !.day = 1]

\* The instant, in UTC, of the wall clock t read `minutes` east of UTC.
inUTC(t, minutes) ==
  LET total == 60 * t.hour + t.min - minutes
      onDay == IF total < 0 THEN dayBefore(t)
               ELSE IF total >= 1440 THEN dayAfter(t) ELSE t
      within == (total + 1440) % 1440
  IN  [onDay EXCEPT !.hour = within \div 60, !.min = within % 60]

\* The layout "date time +-hhmm": the date and time, a space, a sign and
\* four digits.
withOffset(s) ==
  LET sign == At(s, Len(s) - 4)
      hh   == getnum(SubSeq(s, Len(s) - 3, Len(s) - 2), TRUE)
      mm   == getnum(SubSeq(s, Len(s) - 1, Len(s)), TRUE)
      p    == ParseDateTime(dropLast(s, 6))
  IN  IF Len(s) < 6 \/ At(s, Len(s) - 5) # " " \/ sign \notin {"+", "-"}
         \/ hh.err \/ mm.err \/ mm.val >= 60 \/ p.err
      THEN ParseError
      ELSE [err |-> FALSE,
            val |-> inUTC(p.val, IF sign = "+" THEN 60 * hh.val + mm.val
                                 ELSE 0 - (60 * hh.val + mm.val))]

\* A layout that ends in a literal: the literal is taken off the end and
\* the rest is the date and time, in UTC.
withLiteral(s, lit) ==
  IF endsWith(s, lit) THEN ParseDateTime(dropLast(s, Len(lit)))
  ELSE ParseError

\* The layouts of parseMessageTimestamp, in the order they are tried.
layouts == << "offset", "0000", "double space 0000", "no zone" >>

tryLayout(s, layout) ==
  CASE layout = "offset"            -> withOffset(s)
    [] layout = "0000"              -> withLiteral(s, " 0000")
    [] layout = "double space 0000" -> withLiteral(s, "  0000")
    [] layout = "no zone"           -> ParseDateTime(s)

\* The first of the layouts from the i-th on that matches s.
RECURSIVE firstMatch(_, _, _)
firstMatch(s, order, i) ==
  IF i > Len(order) THEN [val |-> ZeroTime, err |-> TimestampFormatError(s)]
  ELSE IF ~tryLayout(s, order[i]).err
    THEN [val |-> tryLayout(s, order[i]).val, err |-> Nil]
  ELSE firstMatch(s, order, i + 1)

\* A faulty parseMessageTimestamp: the layout with the doubled space is
\* missing from the list.
parseMessageTimestamp_SingleSpace(s) ==
  IF s = "" THEN [val |-> ZeroTime, err |-> Nil]
  ELSE firstMatch(s, << "offset", "0000", "no zone" >>, 1)

\* parseMessageTimestamp: the empty string is the zero instant; any other
\* is tried against the layouts in order.
parseMessageTimestamp(s) ==
  IF s = "" THEN [val |-> ZeroTime, err |-> Nil]
  ELSE firstMatch(s, layouts, 1)

\* What a constructor returns on an empty key or secret, the key looked at
\* first; "" when both are there.
emptyCredential(apiKey, apiSecret, mark) ==
  IF apiKey = "" THEN "apiKey can not be empty" \o mark
  ELSE IF apiSecret = "" THEN "apiSecret can not be empty" \o mark
  ELSE ""

\* A sub-API: it holds the pointer to its client.
SubAPI(c) == [client |-> c]

\* NewConn: Conn has the two credentials and nothing else.
NewConn(apiKey, apiSecret) ==
  IF emptyCredential(apiKey, apiSecret, "!") # ""
  THEN [val |-> Nil, err |-> New(emptyCredential(apiKey, apiSecret, "!"))]
  ELSE [val |-> [ptr |-> "nexmo", apiKey |-> apiKey, apiSecret |-> apiSecret],
        err |-> Nil]

\* NewClientFromAPI, when Client had the sub-APIs Account, SMS and USSD.
NewClientFromAPI(apiKey, apiSecret) ==
  IF emptyCredential(apiKey, apiSecret, "") # ""
  THEN [val |-> Nil, err |-> New(emptyCredential(apiKey, apiSecret, ""))]
  ELSE [val |-> [ptr |-> "c", apiKey |-> apiKey, apiSecret |-> apiSecret,
                 useOauth |-> FALSE, Account |-> SubAPI("c"),
                 SMS |-> SubAPI("c"), USSD |-> SubAPI("c"),
                 HTTPClient |-> "http.DefaultClient"],
        err |-> Nil]

\* A faulty NewClient: the secret is not looked at.
NewClient_KeyOnly(apiKey, apiSecret) ==
  IF apiKey = ""
  THEN [val |-> Nil, err |-> New("apiKey can not be empty")]
  ELSE [val |-> [ptr |-> "c", apiKey |-> apiKey, apiSecret |-> apiSecret,
                 useOauth |-> FALSE, Account |-> SubAPI("c"),
                 SMS |-> SubAPI("c"), USSD |-> SubAPI("c"),
                 Verify |-> SubAPI("c"), HTTPClient |-> "http.DefaultClient"],
        err |-> Nil]

\* NewClient.
NewClient(apiKey, apiSecret) ==
  IF emptyCredential(apiKey, apiSecret, "") # ""
  THEN [val |-> Nil, err |-> New(emptyCredential(apiKey, apiSecret, ""))]
  ELSE [val |-> [ptr |-> "c", apiKey |-> apiKey, apiSecret |-> apiSecret,
                 useOauth |-> FALSE, Account |-> SubAPI("c"),
                 SMS |-> SubAPI("c"), USSD |-> SubAPI("c"),
                 Verify |-> SubAPI("c"), HTTPClient |-> "http.DefaultClient"],
        err |-> Nil]

\* The timestamps a caller parses: a date, a time and a zone, each as the
\* provider writes it or not, and strings that are no timestamp.
Dates == {"2022-05-05", "2020-02-29", "2021-02-29", "2022-12-31", "2023-01-01"}

Clocks == {"14:35:48", "16:05:13", "23:59:59", "00:10:00", "24:00:00"}

Zones ==
  {"", " 0000", "  0000", " +0000", " +0200", " -0130", "   0000", " UTC",
   " 000", "+0000"}

Timestamps ==
  {"", "yesterday", "2022-05-05", "0000"} \cup
  {date \o " " \o clock \o zone : date \in Dates, clock \in Clocks, zone \in Zones}

CompactTimestamps ==
  {"", "2205051435", "6912312359", "220505143", "22050514355", "2213051435",
   "2202291200", "2002291200", "220505 1435", "yesterday"}

Credentials == [apiKey : {"", APIKey, "key-2"}, apiSecret : {"", APISecret, "secret-2"}]

\* What each function is called with.
PackageArguments ==
  [ parseSCTS             |-> {[s |-> t] : t \in CompactTimestamps},
    parseMessageTimestamp |-> {[s |-> t] : t \in Timestamps},
    NewConn               |-> Credentials,
    NewClientFromAPI      |-> Credentials,
    NewClient             |-> Credentials ]

PackageInit ==
  /\ ServerIdle
  /\ ipStr = ""
  /\ trusted = NoCall
  /\ ClientIdle
  /\ ConcurrentIdle
  /\ callee \in DOMAIN PackageArguments
  /\ given \in PackageArguments[callee]
  /\ returned = NoCall

\* One call: what the function returns is kept as the caller gets it.
Returns(r) ==
  /\ returned = NoCall
  /\ returned' = [called |-> TRUE, val |-> r.val, err |-> r.err]
  /\ UNCHANGED << callee, given, serverVars, trustVars, clientVars,
               concurrentVars >>

parseSCTS_Call ==
  /\ callee = "parseSCTS"
  /\ Returns(parseSCTS(given.s))

parseMessageTimestamp_Call ==
  /\ callee = "parseMessageTimestamp"
  /\ Returns(parseMessageTimestamp(given.s))

NewConn_Call ==
  /\ callee = "NewConn"
  /\ Returns(NewConn(given.apiKey, given.apiSecret))

NewClientFromAPI_Call ==
  /\ callee = "NewClientFromAPI"
  /\ Returns(NewClientFromAPI(given.apiKey, given.apiSecret))

NewClient_Call ==
  /\ callee = "NewClient"
  /\ Returns(NewClient(given.apiKey, given.apiSecret))

\* The caller drops what it got.
Dropped ==
  /\ returned # NoCall
  /\ returned' = NoCall
  /\ UNCHANGED << callee, given, serverVars, trustVars, clientVars,
               concurrentVars >>

PackageNext ==
  \/ parseSCTS_Call
  \/ parseMessageTimestamp_Call
  \/ NewConn_Call
  \/ NewClientFromAPI_Call
  \/ NewClient_Call
  \/ Dropped

PackageSpec == PackageInit /\ [][PackageNext]_vars

(***************************************************************************)
(* Handler invocations that run concurrently and share one out channel     *)
(*                                                                         *)
(*   capacity  the capacity of out: 0 for an unbuffered channel            *)
(*   serving   for each invocation [pc, req, w, m]; pc is "waiting" for    *)
(*             a request, "sending" at "out <- m", "sent" after it,        *)
(*             "returned" when the handler function has returned           *)
(*   received  what the consumer has taken from out                        *)
(***************************************************************************)
\* The handler invocations the server runs at once.
MaxHandlers == 2

Invocations == 1..MaxHandlers

Waiting == [pc |-> "waiting", req |-> NoRequest, w |-> NoResponse, m |-> Nil]

\* The requests that arrive together: a ping, two receipts (or messages)
\* that differ in one field, one that is not decodable, a receipt (or
\* message) from an address outside the provider's networks, and a message
\* posted as a form with no query string.
SampleReceipt ==
  PassThrough @@ ("scts" :> "2205051435")
    @@ ("message-timestamp" :> "2022-05-05 14:35:48")

SampleMessage ==
  MessageEnvelope @@ ("type" :> "text")
    @@ ("message-timestamp" :> "2020-01-01 10:00:00")

ConcurrentRequests ==
  [ NewDeliveryHandler |->
      { Request(Trusted, "GET", NoHeader, NoFields, NoBody, 0),
        Post(Trusted, ContentType(FormType),
             FormBody(SampleReceipt @@ ("client-ref" :> "first")),
             length(FormBody(SampleReceipt))),
        Post(Trusted, ContentType(FormType),
             FormBody(SampleReceipt @@ ("client-ref" :> "second")),
             length(FormBody(SampleReceipt))),
        Post(Trusted, ContentType("text/plain"), TextBody, length(TextBody)),
        Post("8.8.8.8:4711", ContentType(FormType),
             FormBody(SampleReceipt @@ ("client-ref" :> "third")),
             length(FormBody(SampleReceipt))) },
    NewMessageHandler |->
      { Request(Trusted, "GET", NoHeader, NoFields, NoBody, 0),
        Request(Trusted, "GET", NoHeader,
                Encoded(NonEmpty(SampleMessage @@ ("text" :> "first"))),
                NoBody, 0),
        Request(Trusted, "GET", NoHeader,
                Encoded(NonEmpty(SampleMessage @@ ("text" :> "second"))),
                NoBody, 0),
        Request(Trusted, "GET", NoHeader,
                Encoded(NonEmpty(SampleMessage @@ ("type" :> "vcal"))),
                NoBody, 0),
        Request("8.8.8.8:4711", "GET", NoHeader,
                Encoded(NonEmpty(SampleMessage @@ ("text" :> "third"))),
                NoBody, 0),
        Post(Trusted, ContentType(FormType),
             FormBody(NonEmpty(SampleMessage @@ ("text" :> "posted"))),
             length(FormBody(NonEmpty(SampleMessage @@ ("text" :> "posted"))))) } ]

\* The handler function each constructor returns, for either verifyIPs, run
\* on each of these requests up to its last statement: what it answers, and
\* the record it has for out.
HandlerFuncs ==
  [h \in DOMAIN ConcurrentRequests |->
    [verify \in BOOLEAN |->
      [r \in ConcurrentRequests[h] |->
        IF h = "NewDeliveryHandler" THEN deliveryHandlerFunc(verify, r)
        ELSE messageHandlerFunc(verify, r)]]]

\* The handler function the constructor returned, run on r.
handlerFunc(r) == HandlerFuncs[handler][verifyIPs][r]

\* A faulty send: when the channel has no room the record is dropped.
send_OrDrop(ch, record) == ch

\* "out <- m" on a buffered channel with room.
send(ch, record) == Append(ch, record)

ConcurrentInit ==
  /\ handler \in {"NewDeliveryHandler", "NewMessageHandler"}
  /\ verifyIPs \in BOOLEAN
  /\ out = << >>
  /\ req = NoRequest
  /\ w = NoResponse
  /\ m = Nil
  /\ ipStr = ""
  /\ trusted = NoCall
  /\ ClientIdle
  /\ PackageIdle
  /\ capacity \in 0..ChanCap
  /\ serving = [g \in Invocations |-> Waiting]
  /\ received = << >>

\* The handler function run by invocation g on r, with outcome o, up to
\* "out <- m"; it returns before it when it has answered.
Runs(g, r, o) ==
  /\ serving[g].pc = "waiting"
  /\ serving' =
       [serving EXCEPT ![g] =
          IF o.m = Nil
          THEN [pc |-> "returned", req |-> r, w |-> o.w, m |-> Nil]
          ELSE [pc |-> "sending", req |-> r, w |-> NoResponse, m |-> o.m]]
  /\ UNCHANGED << serverVars, trustVars, clientVars, packageVars, capacity,
                  received >>

\* The server starts the handler function on a request.
HandlerRuns ==
  \E g \in Invocations, r \in ConcurrentRequests[handler] :
    Runs(g, r, handlerFunc(r))

\* "out <- m" on a buffered channel: it goes through when there is room.
HandlerSends ==
  \E g \in Invocations :
    /\ serving[g].pc = "sending"
    /\ capacity > 0
    /\ Len(out) < capacity
    /\ out' = send(out, serving[g].m)
    /\ serving' = [serving EXCEPT ![g].pc = "sent"]
    /\ UNCHANGED << handler, verifyIPs, req, w, m, trustVars, clientVars,
                    packageVars, capacity, received >>

\* "out <- m" on an unbuffered channel: it goes through when the consumer
\* receives.
HandlerHandsOver ==
  \E g \in Invocations :
    /\ serving[g].pc = "sending"
    /\ capacity = 0
    /\ received' = Append(received, serving[g].m)
    /\ serving' = [serving EXCEPT ![g].pc = "sent"]
    /\ UNCHANGED << serverVars, trustVars, clientVars, packageVars, capacity >>

\* The handler function returns after "out <- m" with nothing written: the
\* server answers 200.
HandlerReturns ==
  \E g \in Invocations :
    /\ serving[g].pc = "sent"
    /\ serving' = [serving EXCEPT ![g].pc = "returned",
                                  ![g].w = WriteHeader(StatusOK)]
    /\ UNCHANGED << serverVars, trustVars, clientVars, packageVars, capacity,
                    received >>

\* The consumer takes the next record from the buffer of out.
ConsumerReceives ==
  /\ out # << >>
  /\ received' = Append(received, Head(out))
  /\ out' = Tail(out)
  /\ UNCHANGED << handler, verifyIPs, req, w, m, trustVars, clientVars,
                  packageVars, capacity, serving >>

ConcurrentNext ==
  \/ HandlerRuns
  \/ HandlerSends
  \/ HandlerHandsOver
  \/ HandlerReturns
  \/ ConsumerReceives

ConcurrentSpec == ConcurrentInit /\ [][ConcurrentNext]_vars

\* The same with a scheduler that lets every handler under way run, a
\* channel that serves its senders in turn and a consumer that keeps
\* receiving; whether further requests arrive is left open.
FairConcurrentSpec ==
  /\ ConcurrentSpec
  /\ SF_vars(HandlerSends)
  /\ WF_vars(HandlerHandsOver)
  /\ WF_vars(HandlerReturns)
  /\ WF_vars(ConsumerReceives)

(***************************************************************************)
(* Properties of the webhook handlers                                      *)
(***************************************************************************)
isDelivery == handler = "NewDeliveryHandler"

isMessage == handler = "NewMessageHandler"

\* The handler function has run on req and has not yet returned.
served == req # NoRequest

\* req gets past the check of its remote address.
admitted == ~verifyIPs \/ fromNexmo(req)

hasContentType(v) ==
  "Content-Type" \in DOMAIN req.Header /\ req.Header["Content-Type"][1] = v

\* req reaches the decoding of a receipt: admitted, not a ping, and of one
\* of the two content types.
receiptRequest ==
  /\ isDelivery /\ served /\ admitted /\ ~deliveryPing(req)
  /\ hasContentType(JSONType) \/ hasContentType(FormType)

\* The fields req carries were read: the JSON object or the form parsed.
receiptRead ==
  /\ receiptRequest
  /\ IF hasContentType(JSONType) THEN req.Body.kind = "json"
     ELSE req.Body.kind \in {"none", "form"} /\ ~ParseForm(req).err

\* The value of field k as req carries it.
carried(k) ==
  IF hasContentType(JSONType) THEN jsonField(req.Body.fields, k)
  ELSE FormValue(ParseForm(req).Form, k)

compactOK(s) ==
  ~QueryUnescape(s).err /\ ~ParseCompact(QueryUnescape(s).val).err

compactOf(s) == ParseCompact(QueryUnescape(s).val).val

dateTimeOK(s) ==
  ~QueryUnescape(s).err /\ ~ParseDateTime(QueryUnescape(s).val).err

dateTimeOf(s) == ParseDateTime(QueryUnescape(s).val).val

\* C1: a receipt (form or JSON) whose scts and/or message-timestamp is empty
\* or missing, and whose other timestamp is valid, is not rejected: a
\* DeliveryReceipt is passed to out with the zero instant in the field that
\* was empty.
C1_AbsentTimestampsTolerated ==
  (/\ receiptRead
   /\ carried("scts") = "" \/ carried("message-timestamp") = ""
   /\ carried("scts") = "" \/ compactOK(carried("scts"))
   /\ carried("message-timestamp") = ""
        \/ dateTimeOK(carried("message-timestamp")))
  => /\ m # Nil
     /\ carried("scts") = "" => IsZero(m.SCTS)
     /\ carried("message-timestamp") = "" => IsZero(m.Timestamp)

\* req with its client-ref field set to c, in the place req carries fields.
withClientRef(r, c) ==
  IF r.Body.kind = "form"
  THEN [r EXCEPT !.Body.fields = ("client-ref" :> QueryEscape(c)) @@ @]
  ELSE [r EXCEPT !.RawQuery = ("client-ref" :> QueryEscape(c)) @@ @]

\* C2: for a form-encoded receipt, SCTS is the scts field percent-decoded and
\* parsed with the compact layout, Timestamp is computed from
\* message-timestamp, and another client-ref with the same scts changes
\* neither SCTS nor whether the receipt is accepted.
C2_SCTSFromSctsField ==
  (receiptRead /\ hasContentType(FormType))
  => /\ m # Nil =>
          /\ compactOK(carried("scts"))
          /\ m.SCTS = compactOf(carried("scts"))
          /\ m.Timestamp = dateTimeOf(carried("message-timestamp"))
     /\ \A c \in ClientReferences :
          LET o == deliveryHandlerFunc(verifyIPs, withClientRef(req, c)) IN
          /\ (o.m = Nil) <=> (m = Nil)
          /\ m # Nil => o.m.SCTS = m.SCTS

\* C3: with IP verification off, a request with an empty query string and a
\* content length of zero or less is answered 200 and nothing is passed to
\* out, whatever its Content-Type header.
C3_PingAnswered200 ==
  (/\ isDelivery /\ served /\ ~verifyIPs
   /\ req.RawQuery = NoFields /\ req.ContentLength <= 0)
  => w.status = StatusOK /\ m = Nil

\* A ping with no Content-Type header, a body and an unknown length has been
\* answered.
C3_Witness ==
  /\ isDelivery /\ served /\ ~verifyIPs
  /\ req.RawQuery = NoFields /\ req.ContentLength < 0
  /\ req.Body.kind # "none"
  /\ "Content-Type" \notin DOMAIN req.Header
  /\ w.status = StatusOK

\* The message a form carries decodes: type, content, timestamp and
\* concatenation fields are all valid.
validMessage(Form) ==
  /\ ~messageContent(Form).err
  /\ ~messageTimestamp(Form).err
  /\ ~messageConcat(Form).err

\* C4: the message handler takes a request for a ping only when both the
\* query string and the body are empty: a request with an empty query string
\* and a form-encoded body carrying a valid message is decoded and its
\* ReceivedMessage is passed to out.
C4_FormBodyMessageDecoded ==
  (/\ isMessage /\ served /\ admitted
   /\ req.RawQuery = NoFields
   /\ req.Body.kind = "form" /\ hasContentType(FormType)
   /\ ~ParseForm(req).err
   /\ validMessage(ParseForm(req).Form))
  => /\ m # Nil
     /\ m.Type = messageContent(ParseForm(req).Form).Type

\* The raw record the delivery handler decoded from req.
rawOf ==
  IF hasContentType(JSONType) THEN parseJSON(req).rm ELSE parseForm(req).rm

\* C5: a DeliveryReceipt is passed to out only if both the scts and the
\* message-timestamp of its raw record were unescaped and parsed, and it
\* holds the parsed instants; when either fails, nothing is passed to out
\* and the response is an error status.
C5_TimestampFailureTerminal ==
  (isDelivery /\ served)
  => /\ m # Nil =>
          /\ receiptRead
          /\ compactOK(rawOf.SCTS) /\ dateTimeOK(rawOf.Timestamp)
          /\ m.SCTS = compactOf(rawOf.SCTS)
          /\ m.Timestamp = dateTimeOf(rawOf.Timestamp)
     /\ (receiptRead /\ ~(compactOK(rawOf.SCTS) /\ dateTimeOK(rawOf.Timestamp)))
          => m = Nil /\ w.status = StatusInternalServerError

\* A receipt whose scts parsed and whose message-timestamp did not has been
\* rejected.
C5_Witness ==
  /\ receiptRead
  /\ compactOK(rawOf.SCTS) /\ ~dateTimeOK(rawOf.Timestamp)
  /\ rawOf.Timestamp # ""
  /\ m = Nil /\ w.status = StatusInternalServerError

ReceiptFields ==
  {"to", "network-code", "messageId", "msisdn", "status", "err-code", "price",
   "scts", "message-timestamp", "client-ref"}

\* The JSON request that carries the receipt fields the form of req carries.
jsonTwin ==
  LET Form == ParseForm(req).Form
      vals == [k \in ReceiptFields \cap DOMAIN Form |-> Form[k]]
  IN  Post(req.RemoteAddr, ContentType(JSONType), JSONBody(vals),
           length(JSONBody(vals)))

\* C6: a form-encoded request and a JSON request carrying the same values
\* of the ten receipt fields produce the same raw record, and so the same
\* DeliveryReceipt on out or the same rejection.
C6_FormJSONEquivalent ==
  (receiptRead /\ hasContentType(FormType))
  => /\ parseJSON(jsonTwin).rm = parseForm(req).rm
     /\ deliveryHandlerFunc(verifyIPs, jsonTwin).m = m
     /\ deliveryHandlerFunc(verifyIPs, jsonTwin).w.status = w.status

\* The delivery handler failed to decode req: its content type is missing
\* or unsupported, its body could not be read, or a timestamp of the raw
\* record could not be unescaped or parsed.
receiptFailure ==
  /\ isDelivery /\ served /\ admitted /\ ~deliveryPing(req)
  /\ \/ ~(hasContentType(JSONType) \/ hasContentType(FormType))
     \/ IF hasContentType(JSONType) THEN req.Body.kind # "json"
        ELSE ParseForm(req).err
     \/ ~(compactOK(rawOf.SCTS) /\ dateTimeOK(rawOf.Timestamp))

\* The message handler failed to decode req: its type is not recognized, or
\* a field could not be unescaped or parsed.
messageFailure ==
  /\ isMessage /\ served /\ admitted /\ ~messagePing(req)
  /\ ~validMessage(ParseForm(req).Form)

\* A body with no text: nothing, or the newline http.Error writes after an
\* empty error text.
noText(body) == body \in {"", "\n"}

names(text, part) ==
  \E i \in 1..(Len(text) - Len(part) + 1) :
    SubSeq(text, i, i + Len(part) - 1) = part

\* C8: a delivery request that is not a ping and whose Content-Type is
\* neither application/json nor application/x-www-form-urlencoded is
\* rejected with an error that names the content type received, and nothing
\* is passed to out.
C8_UnsupportedContentTypeNamed ==
  (/\ isDelivery /\ served /\ admitted /\ ~deliveryPing(req)
   /\ "Content-Type" \in DOMAIN req.Header
   /\ ~(hasContentType(JSONType) \/ hasContentType(FormType)))
  => /\ m = Nil
     /\ w.status >= StatusBadRequest
     /\ names(w.body, req.Header["Content-Type"][1])

\* A form receipt sent as "application/x-www-form-urlencoded; charset=UTF-8"
\* has been rejected.
C8_Witness ==
  /\ isDelivery /\ served /\ admitted /\ ~deliveryPing(req)
  /\ hasContentType(FormType \o "; charset=UTF-8")
  /\ req.Body.kind = "form"
  /\ m = Nil /\ w.status = StatusBadRequest

\* C9: type=text yields Type=TextMessage and type=unicode Type=UnicodeMessage,
\* both with Text from the text field and Data and UDH empty; type=binary
\* yields Type=BinaryMessage with Data and UDH from the data and udh fields
\* and Text empty; any other type, a missing one included, is rejected and
\* nothing is passed to out.
C9_TypeDiscrimination ==
  (isMessage /\ served)
  => LET Form == ParseForm(req).Form
         type == FormValue(Form, "type")
         field(k) == QueryUnescape(FormValue(Form, k)).val
     IN  /\ m # Nil =>
              \/ /\ type = "text" /\ m.Type = TextMessage
                 /\ m.Text = field("text") /\ m.Data = "" /\ m.UDH = ""
              \/ /\ type = "unicode" /\ m.Type = UnicodeMessage
                 /\ m.Text = field("text") /\ m.Data = "" /\ m.UDH = ""
              \/ /\ type = "binary" /\ m.Type = BinaryMessage
                 /\ m.Data = field("data") /\ m.UDH = field("udh")
                 /\ m.Text = ""
         /\ (admitted /\ ~messagePing(req)
               /\ type \notin {"text", "unicode", "binary"})
              => m = Nil /\ w.status = StatusInternalServerError

\* A unicode message carrying text, data and udh has been passed to out with
\* its text alone.
C9_Witness ==
  /\ isMessage /\ served /\ m # Nil
  /\ m.Type = UnicodeMessage /\ m.Text = "Hello" /\ m.Data = ""
  /\ FormValue(ParseForm(req).Form, "data") # ""

\* C10: message-timestamp is required and must parse with the layout
\* "2006-01-02 15:04:05": when it is missing, cannot be unescaped or does not
\* parse, the message is rejected and nothing is passed to out; a message
\* passed to out holds the parsed instant.
C10_TimestampRequired ==
  (isMessage /\ served)
  => LET t == FormValue(ParseForm(req).Form, "message-timestamp") IN
     /\ m # Nil => dateTimeOK(t) /\ m.Timestamp = dateTimeOf(t)
     /\ (admitted /\ ~messagePing(req) /\ ~dateTimeOK(t))
          => m = Nil /\ w.status = StatusInternalServerError

\* A text message that is valid but for its missing message-timestamp has
\* been rejected.
C10_Witness ==
  /\ isMessage /\ served /\ admitted /\ ~messagePing(req)
  /\ FormValue(ParseForm(req).Form, "message-timestamp") = ""
  /\ ~messageContent(ParseForm(req).Form).err
  /\ ~messageConcat(ParseForm(req).Form).err
  /\ m = Nil /\ w.status = StatusInternalServerError

\* The decimal integers the concat fields of the requests spell, by value.
IntegerOf ==
  ("3" :> 3) @@ ("1" :> 1)

isInteger(s) == s \in DOMAIN IntegerOf

\* C11: when concat is "true", a message passed to out has Concatenated set,
\* Concat.Reference equal to concat-ref and Concat.Total and Concat.Part equal
\* to the integers concat-total and concat-part spell; when concat-total or
\* concat-part is missing or not an integer the message is rejected and
\* nothing is passed to out.
C11_ConcatDecoded ==
  (isMessage /\ served /\ FormValue(ParseForm(req).Form, "concat") = "true")
  => LET Form  == ParseForm(req).Form
         total == FormValue(Form, "concat-total")
         part  == FormValue(Form, "concat-part")
     IN  /\ m # Nil =>
              /\ m.Concatenated
              /\ m.Concat.Reference = FormValue(Form, "concat-ref")
              /\ isInteger(total) /\ m.Concat.Total = IntegerOf[total]
              /\ isInteger(part) /\ m.Concat.Part = IntegerOf[part]
         /\ (admitted /\ ~messagePing(req)
               /\ ~(isInteger(total) /\ isInteger(part)))
              => m = Nil /\ w.status = StatusInternalServerError

\* Part 1 of 3 of the concatenated message r7 has been passed to out.
C11_Witness ==
  /\ isMessage /\ served /\ m # Nil
  /\ FormValue(ParseForm(req).Form, "concat") = "true"
  /\ m.Concatenated
  /\ m.Concat = [Reference |-> "r7", Total |-> 3, Part |-> 1]

\* C12: a message passed to out has Concatenated set exactly when concat is
\* "true"; when it is not, Concat.Reference is empty and Concat.Total and
\* Concat.Part are 0 whatever concat-ref, concat-total and concat-part hold,
\* and these fields are no cause of rejection.
C12_ConcatOnlyWhenTrue ==
  (isMessage /\ served)
  => LET Form == ParseForm(req).Form
         on   == FormValue(Form, "concat") = "true"
     IN  /\ m # Nil =>
              /\ m.Concatenated <=> on
              /\ ~on => m.Concat = [Reference |-> "", Total |-> 0, Part |-> 0]
         /\ (admitted /\ ~messagePing(req) /\ ~on
               /\ ~messageContent(Form).err /\ ~messageTimestamp(Form).err)
              => m # Nil

\* A message with concat=false, a concat-ref and a concat-total that is not
\* an integer has been passed to out without concatenation data.
C12_Witness ==
  /\ isMessage /\ served /\ m # Nil
  /\ FormValue(ParseForm(req).Form, "concat") = "false"
  /\ FormValue(ParseForm(req).Form, "concat-ref") = "r7"
  /\ FormValue(ParseForm(req).Form, "concat-total") = "abc"
  /\ ~m.Concatenated /\ m.Concat.Reference = ""

\* The address with octets q lies in one of the provider's four blocks:
\* 174.37.245.32/29, 174.36.197.192/28, 173.193.199.16/28, 119.81.44.0/28.
inBlocks(q) ==
  \/ << q[1], q[2], q[3] >> = << 174, 37, 245 >> /\ q[4] \in 32..39
  \/ << q[1], q[2], q[3] >> = << 174, 36, 197 >> /\ q[4] \in 192..207
  \/ << q[1], q[2], q[3] >> = << 173, 193, 199 >> /\ q[4] \in 16..31
  \/ << q[1], q[2], q[3] >> = << 119, 81, 44 >> /\ q[4] \in 0..15

\* C13: IsTrustedIP returns true exactly for the addresses inside one of the
\* four blocks, false for every other address, and false (a result, never a
\* failure) for a string that is no IP address.
C13_TrustedExactlyInBlocks ==
  trusted # NoCall
  => /\ trusted.result \in BOOLEAN
     /\ \A q \in Quads : ipStr = Dotted(q) => (trusted.result <=> inBlocks(q))
     /\ ipStr \in Malformed => ~trusted.result

\* 119.81.44.15, the last address of the fourth block, was found trusted.
C13_Witness ==
  /\ trusted # NoCall /\ ipStr = "119.81.44.15" /\ trusted.result

\* 8.8.8.8 was found not trusted.
C13_WitnessOutside ==
  /\ trusted # NoCall /\ ipStr = "8.8.8.8" /\ ~trusted.result

\* The remote addresses of the requests that are malformed (no port) or name
\* a host outside the provider's blocks.
Untrusted == {"8.8.8.8:4711", "174.37.245.33"}

\* What the handler function answers to r and passes to out.
outcome(r) ==
  IF isDelivery THEN deliveryHandlerFunc(verifyIPs, r)
  ELSE messageHandlerFunc(verifyIPs, r)

\* C14: with verifyIPs set, a request whose remote address is malformed or
\* whose host is not trusted is answered with an error status and nothing
\* else happens to it, a ping included, so that out only ever receives
\* records of trusted requests; without verifyIPs the remote address has no
\* effect on the outcome.
C14_UntrustedNeverDelivered ==
  (served /\ (isDelivery \/ isMessage))
  => /\ (verifyIPs /\ req.RemoteAddr \in Untrusted)
          => /\ m = Nil
             /\ w.status = StatusInternalServerError
     /\ (verifyIPs /\ m # Nil) => req.RemoteAddr = Trusted
     /\ ~verifyIPs
          => \A a \in RemoteAddrs :
               outcome([req EXCEPT !.RemoteAddr = a]) = [w |-> w, m |-> m]

\* With verifyIPs set, a ping from 8.8.8.8 has been answered 500.
C14_Witness ==
  /\ isMessage /\ served /\ verifyIPs
  /\ req.RemoteAddr = "8.8.8.8:4711" /\ req.RawQuery = NoFields
  /\ req.Body.kind = "none"
  /\ m = Nil /\ w.status = StatusInternalServerError

\* Without verifyIPs, a receipt from 8.8.8.8 has been passed to out.
C14_WitnessUnverified ==
  /\ isDelivery /\ served /\ ~verifyIPs
  /\ req.RemoteAddr = "8.8.8.8:4711" /\ m # Nil


(***************************************************************************)
(* Properties of the sending operations                                    *)
(***************************************************************************)
\* The operations that send a message.
SendOperations ==
  {"Conn_SendTextMessage", "Conn_SendFlashMessage", "SendTextMessage",
   "SendFlashMessage", "SendUssdPush", "SendUssdPrompt", "SMS_Send_Form",
   "SMS_Send_JSON", "SMS_Send", "USSD_Send"}

\* The client reference of the record or the arguments a send was called with.
clientReferenceOf(record) ==
  IF "ClientReference" \in DOMAIN record THEN record.ClientReference
  ELSE record.clientReference

\* The call has returned an error and no response.
failed == ~result.panic /\ result.resp = Nil /\ result.err # Nil

\* The call has returned the error of a validation step.
rejectedAs(texts) == failed /\ result.err = New(result.err.Message)
                            /\ result.err.Message \in texts

TooLong == {"Client reference too long", "client reference too long"}

\* C15: every send operation called with a client reference longer than 40
\* characters returns a validation error without performing any HTTP
\* request, and a reference of exactly 40 characters is not rejected as too
\* long.
C15_ClientReferenceChecked ==
  (op \in SendOperations /\ call # NoCall) =>
    /\ Len(clientReferenceOf(message)) > 40 => (failed /\ sent = << >>)
    /\ Len(clientReferenceOf(message)) = 40 => ~rejectedAs(TooLong)

\* The same of the operations that do check: SMS.Send, USSD.Send and the
\* four senders of Client.
C15_CheckedByClientAndServices ==
  (op \in SendOperations \ {"Conn_SendTextMessage", "Conn_SendFlashMessage"}
     /\ call # NoCall) =>
    /\ Len(clientReferenceOf(message)) > 40 => (failed /\ sent = << >>)
    /\ Len(clientReferenceOf(message)) = 40 => ~rejectedAs(TooLong)

\* Conn.SendTextMessage has sent a request carrying a reference of 41
\* characters.
C15_ConnSendsLongReference ==
  /\ op = "Conn_SendTextMessage"
  /\ call # NoCall
  /\ clientReferenceOf(message) = Ref41
  /\ Len(sent) = 1


\* SMS.Send in its three variants, and USSD.Send.
ServiceSends == {"SMS_Send_Form", "SMS_Send_JSON", "SMS_Send", "USSD_Send"}

\* The first of the checks From, To, ClientReference that the record fails.
firstFailing(record) ==
  IF record.From = "" THEN "From"
  ELSE IF record.To = "" THEN "To"
  ELSE IF Len(record.ClientReference) > 40 THEN "ClientReference"
  ELSE "none"

FromInvalid == {"Invalid From field specified", "invalid From field specified"}

ToInvalid == {"Invalid To field specified", "invalid To field specified"}

\* C16: SMS.Send and USSD.Send called with an empty From or an empty To
\* return a validation error and perform no HTTP request; From, To and
\* ClientReference are checked in this order, and the error returned is that
\* of the first check that fails.
C16_RequiredFieldsChecked ==
  (op \in ServiceSends /\ call # NoCall) =>
    /\ firstFailing(message) = "From" => (rejectedAs(FromInvalid) /\ sent = << >>)
    /\ firstFailing(message) = "To" => (rejectedAs(ToInvalid) /\ sent = << >>)
    /\ firstFailing(message) = "ClientReference" =>
         (rejectedAs(TooLong) /\ sent = << >>)

\* SMS.Send has rejected, for its From, a record that fails all three checks.
C16_Witness ==
  /\ op = "SMS_Send"
  /\ call # NoCall
  /\ message.From = "" /\ message.To = "" /\ message.ClientReference = Ref41
  /\ rejectedAs(FromInvalid)
  /\ sent = << >>

\* USSD.Send has rejected, for its To, a record with a reference too long.
C16_WitnessUSSD ==
  /\ op = "USSD_Send"
  /\ call # NoCall
  /\ message.From # "" /\ message.To = "" /\ message.ClientReference = Ref41
  /\ rejectedAs(ToInvalid)
  /\ sent = << >>


\* The payload of the request a call has sent: its fields by name.
payload == sent[1].Body.fields

carries(name) == name \in DOMAIN payload

\* The payload follows the mode of the client: with useOauth false it carries
\* the client's credentials, with useOauth true none.
credentialsFollowMode ==
  IF ~call.useOauth
  THEN /\ carries("api_key") /\ payload["api_key"] = APIKey
       /\ carries("api_secret") /\ payload["api_secret"] = APISecret
  ELSE ~carries("api_key") /\ ~carries("api_secret")

\* C17: a Send through a client with useOauth false carries the client's
\* api_key and api_secret in its payload; through a client with useOauth
\* true the payload carries no api_key and no api_secret, whatever the
\* record, one sent before through a non-signing client included.
C17_CredentialsFollowMode ==
  (op \in ServiceSends /\ call # NoCall /\ sent # << >>) => credentialsFollowMode

\* The same of the form-encoded senders alone, which build the payload anew
\* from the fields of the record.
C17_FormSendsFollowMode ==
  (op \in {"SMS_Send_Form", "USSD_Send"} /\ call # NoCall /\ sent # << >>) =>
    credentialsFollowMode

\* Without signing every Send carries the client's credentials.
C17_CredentialsInjected ==
  (op \in ServiceSends /\ call # NoCall /\ sent # << >> /\ ~call.useOauth) =>
    credentialsFollowMode

\* SMS.Send through a signing client has sent the credentials the record kept
\* from an earlier send.
C17_SigningSendsCredentials ==
  /\ op = "SMS_Send"
  /\ call # NoCall
  /\ call.useOauth
  /\ sent # << >>
  /\ carries("api_key") /\ payload["api_key"] = APIKey
  /\ carries("api_secret") /\ payload["api_secret"] = APISecret

\* SMS.Send through a signing client has sent a record never sent before:
\* api_key and api_secret are in the payload, empty.
C17_SigningSendsEmptyCredentials ==
  /\ op = "SMS_Send"
  /\ call # NoCall
  /\ call.useOauth
  /\ sent # << >>
  /\ carries("api_key") /\ payload["api_key"] = ""


\* The payload sent names message class 0: as the number 0 in JSON, as the
\* text "0" in a form.
specifiesClass0 ==
  IF op \in {"SMS_Send_JSON", "SMS_Send"}
  THEN carries("message-class") /\ payload["message-class"] = 0
  ELSE \/ carries("message_class") /\ payload["message_class"] = "0"
       \/ carries("message-class") /\ payload["message-class"] = "0"

\* What SendTextMessage sends of the arguments and through the client and
\* transport of the call at hand.
standardSent ==
  IF op = "SendFlashMessage"
  THEN Client_sendMessage(Client(call.useOauth), message, sms, call.do).sent
  ELSE Conn_sendMessage(Client(call.useOauth), message, FALSE, call.do).sent

\* C18: the request sent by SendFlashMessage, and by SMS.Send for a record
\* with Class = Flash, names message class 0 in its payload, and so differs
\* from the request of the standard send of the same arguments.
C18_FlashIsClass0 ==
  /\ (op \in {"SendFlashMessage", "Conn_SendFlashMessage"} /\ call # NoCall
        /\ sent # << >>) => (specifiesClass0 /\ sent # standardSent)
  /\ (op \in {"SMS_Send_Form", "SMS_Send_JSON", "SMS_Send"} /\ call # NoCall
        /\ sent # << >> /\ message.Class = Flash) => specifiesClass0

\* The same of Conn.SendFlashMessage alone, which sets message_class before
\* the values are encoded.
C18_ConnFlashIsClass0 ==
  (op = "Conn_SendFlashMessage" /\ call # NoCall /\ sent # << >>) =>
    (specifiesClass0 /\ sent # standardSent)

\* Client.SendFlashMessage has sent what SendTextMessage sends.
C18_FlashSentAsStandard ==
  /\ op = "SendFlashMessage"
  /\ call # NoCall
  /\ sent # << >>
  /\ sent = standardSent
  /\ ~carries("message_class")

\* SMS.Send has sent a record of Class = Flash without a message class.
C18_FlashClassOmitted ==
  /\ op \in {"SMS_Send_Form", "SMS_Send_JSON", "SMS_Send"}
  /\ call # NoCall
  /\ sent # << >>
  /\ message.Class = Flash
  /\ ~carries("message-class")


\* The nil or zero result of the operation at hand: GetBalance returns a
\* number, the others a pointer.
surfaced ==
  /\ ~result.panic
  /\ result.err # Nil
  /\ IF op \in {"Conn_GetBalance", "Account_GetBalance"}
     THEN result.resp = 0 ELSE result.resp = Nil

\* The operations that look at the error of Do before they touch the
\* response.
ErrorFirst ==
  {"SMS_Send_JSON", "SMS_Send", "USSD_Send", "Verification_Send",
   "Verification_Check", "Verification_Search"}

\* C19: in every operation, when the HTTP transport fails the call returns a
\* non-nil error and a nil or zero result after exactly one HTTP attempt; it
\* neither tries again nor ends in a panic.
C19_FailureSurfacedOnce ==
  (call # NoCall /\ call.do = Fail /\ sent # << >>) =>
    (Len(sent) = 1 /\ surfaced)

\* The same of the operations that check the error first.
C19_ErrorFirstSurfacedOnce ==
  (op \in ErrorFirst /\ call # NoCall /\ call.do = Fail /\ sent # << >>) =>
    (Len(sent) = 1 /\ surfaced)

\* No operation makes a second attempt.
C19_NoRetry == Len(sent) <= 1

\* A send whose transport failed has ended in a panic.
C19_SendPanics ==
  /\ op \in {"Conn_SendTextMessage", "SendTextMessage", "SMS_Send_Form",
             "Conn_GetBalance", "Account_GetBalance"}
  /\ call # NoCall
  /\ call.do = Fail
  /\ Len(sent) = 1
  /\ result.panic

\* SMS.Send has returned the failure of its transport.
C19_FailureReturned ==
  /\ op = "SMS_Send"
  /\ call # NoCall
  /\ call.do = Fail
  /\ Len(sent) = 1
  /\ surfaced


\* The exchange of the call at hand succeeded and its response body is not
\* decodable as a MessageResponse: reading it broke off, or what was read is
\* no JSON value.
undecodable ==
  /\ call.do # Fail
  /\ \/ call.do.readErr
     \/ Unmarshal(call.do.body, "MessageResponse").err # Nil

\* C20: when the HTTP exchange succeeds but the response body is not
\* decodable as a MessageResponse, SMS.Send returns a nil response and an
\* InvalidResponseError whose Body is the bytes read from the response.
C20_UndecodableBodyKept ==
  (op = "SMS_Send" /\ call # NoCall /\ sent # << >> /\ undecodable) =>
    /\ ~result.panic
    /\ result.resp = Nil
    /\ "type" \in DOMAIN result.err
    /\ result.err.type = "InvalidResponseError"
    /\ result.err.Body = call.do.body

\* SMS.Send has been answered with an error page and returned it in the
\* Body of an InvalidResponseError.
C20_Witness ==
  /\ op = "SMS_Send"
  /\ call # NoCall
  /\ call.do = Respond(ErrorPage, FALSE)
  /\ sent # << >>
  /\ result.resp = Nil
  /\ "type" \in DOMAIN result.err
  /\ result.err.type = "InvalidResponseError"
  /\ result.err.Body = ErrorPage

\* SMS.Send has returned what it read of a body that broke off.
C20_WitnessBrokenOff ==
  /\ op = "SMS_Send"
  /\ call # NoCall
  /\ call.do = Respond(BrokenOff, TRUE)
  /\ result.err.Message = "failed to read response from Nexmo"
  /\ result.err.Body = BrokenOff


(***************************************************************************)
(* Properties of the timestamp parsers and the constructors                *)
(***************************************************************************)
\* A parser has been called on s and has returned.
parsedBy(parsers, s) ==
  /\ callee \in parsers
  /\ returned # NoCall
  /\ given.s = s

C21_WitnessMessageTimestamp ==
  /\ parsedBy({"parseMessageTimestamp"}, "")
  /\ returned.err = Nil
  /\ IsZero(returned.val)


\* The layouts that match s, by their place in the list.
matching(s) == {i \in 1..Len(layouts) : ~tryLayout(s, layouts[i]).err}

\* parseMessageTimestamp has returned the instant t, and no error, for s.
yields(s, t) ==
  parsedBy({"parseMessageTimestamp"}, s) => (returned.err = Nil /\ returned.val = t)

C22_WitnessRefused ==
  /\ parsedBy({"parseMessageTimestamp"}, "2022-05-05 14:35:48 UTC")
  /\ returned.err = TimestampFormatError("2022-05-05 14:35:48 UTC")

\* A timestamp east of UTC has been parsed to the instant it names.
C22_WitnessOffset ==
  /\ parsedBy({"parseMessageTimestamp"}, "2023-01-01 00:10:00 +0200")
  /\ returned.err = Nil
  /\ returned.val = Instant(2022, 12, 31, 22, 10, 0)


Constructors == {"NewConn", "NewClientFromAPI", "NewClient"}

SubAPIs == {"Account", "SMS", "USSD", "Verify"}

\* The constructor has returned no client and the error named.
refused(text) ==
  /\ returned.val = Nil
  /\ returned.err \in {New(text), New(text \o "!")}

\* The constructor has returned a client that holds the credentials given,
\* does not sign, and whose sub-APIs all point back to it.
constructed ==
  /\ returned.err = Nil
  /\ returned.val.apiKey = given.apiKey
  /\ returned.val.apiSecret = given.apiSecret
  /\ "useOauth" \in DOMAIN returned.val => ~returned.val.useOauth
  /\ \A sub \in SubAPIs \cap DOMAIN returned.val :
       returned.val[sub].client = returned.val.ptr

\* C23: NewClient, NewClientFromAPI and NewConn return an error and no
\* client when the API key is empty or the API secret is empty, the key
\* looked at first; for non-empty strings they return a client holding
\* exactly those credentials, with signing off and each sub-API (for
\* NewClient: Account, SMS, USSD, Verify) bound to that same client.
C23_CredentialsRequired ==
  (callee \in Constructors /\ returned # NoCall) =>
    /\ given.apiKey = "" => refused("apiKey can not be empty")
    /\ (given.apiKey # "" /\ given.apiSecret = "") =>
         refused("apiSecret can not be empty")
    /\ (given.apiKey # "" /\ given.apiSecret # "") => constructed
    /\ (callee = "NewClient" /\ given.apiKey # "" /\ given.apiSecret # "") =>
         (SubAPIs \cup {"useOauth"}) \subseteq DOMAIN returned.val

\* NewClient has returned a client for a key and a secret.
C23_Witness ==
  /\ callee = "NewClient"
  /\ returned # NoCall
  /\ given.apiKey = "key-2" /\ given.apiSecret = "secret-2"
  /\ constructed
  /\ returned.val.Verify.client = returned.val.ptr

\* NewClient has refused an empty key and an empty secret for the key.
C23_WitnessRefused ==
  /\ callee = "NewClient"
  /\ returned # NoCall
  /\ given.apiKey = "" /\ given.apiSecret = ""
  /\ refused("apiKey can not be empty")

\* NewConn has refused an empty secret.
C23_WitnessNewConn ==
  /\ callee = "NewConn"
  /\ returned # NoCall
  /\ given.apiKey # "" /\ given.apiSecret = ""
  /\ refused("apiSecret can not be empty")


(***************************************************************************)
(* Properties of concurrent handler invocations                            *)
(***************************************************************************)
\* How often record occurs in the sequence s.
occurrences(s, record) == Cardinality({i \in 1..Len(s) : s[i] = record})

\* The record the handler decodes from the request of invocation g; Nil for
\* a ping and for a request it rejects.
decoded(g) == handlerFunc(serving[g].req).m

\* The invocations whose request was accepted and that are past "out <- m".
handedOff ==
  {g \in Invocations :
     serving[g].pc \in {"sent", "returned"} /\ decoded(g) # Nil}

\* What has gone through out so far: received, or still in its buffer.
passed == received \o out

\* The records that have gone through out are, each as often as it was
\* decoded, the records decoded from the accepted requests that are past
\* "out <- m"; pings and rejected requests add nothing.
conserved ==
  /\ \A i \in 1..Len(passed) :
       occurrences(passed, passed[i]) =
         Cardinality({g \in handedOff : decoded(g) = passed[i]})
  /\ \A g \in handedOff : occurrences(passed, decoded(g)) >= 1

\* No invocation is under way and the consumer has emptied out.
quiescent ==
  /\ \A g \in Invocations : serving[g].pc \in {"waiting", "returned"}
  /\ out = << >>

\* The requests that were accepted, by invocation.
accepted == {g \in Invocations : serving[g].pc = "returned" /\ decoded(g) # Nil}

\* The records received are exactly those decoded from the accepted
\* requests, each as often as it was decoded.
allReceived ==
  /\ \A g \in accepted :
       occurrences(received, decoded(g)) =
         Cardinality({h \in accepted : decoded(h) = decoded(g)})
  /\ \A i \in 1..Len(received) : \E g \in accepted : decoded(g) = received[i]

\* C24: under any interleaving of concurrent handler invocations that share
\* one out channel, with a consumer that keeps receiving, each request that
\* decodes results in exactly one record sent on out and each rejected or
\* ping request in none: at every moment the records that went through out
\* are those of the accepted requests past their send; the invocations under
\* way always come to an end, and whenever none is under way the records
\* received are those decoded from the accepted requests, each as often as
\* it was decoded.
C24_NoLossNoDuplication ==
  /\ [](conserved /\ (quiescent => allReceived))
  /\ []<>quiescent

\* Two invocations have had different records accepted, and the consumer
\* has received the record of the second before that of the first.
C24_Witness ==
  /\ \A g \in Invocations : serving[g].pc = "returned"
  /\ out = << >>
  /\ decoded(1) # Nil /\ decoded(2) # Nil /\ decoded(1) # decoded(2)
  /\ received = << decoded(2), decoded(1) >>

\* Two invocations have had the same request, and the consumer has received
\* its record twice.
C24_WitnessSameRequest ==
  /\ \A g \in Invocations : serving[g].pc = "returned"
  /\ out = << >>
  /\ decoded(1) # Nil
  /\ serving[1].req = serving[2].req
  /\ received = << decoded(1), decoded(1) >>

\* A request with neither a query string nor a body.
ping(r) == r.RawQuery = NoFields /\ r.Body.kind = "none"

\* The invocations that have completed.
completed == {g \in Invocations : serving[g].pc = "returned"}

\* The record of invocation g has been sent on out.
sentOnOut(g) == serving[g].pc \in {"sent", "returned"} /\ serving[g].m # Nil

\* A non-ping request that completed with 200 had its record sent on out
\* before, and one that completed with no record sent has an error status.
followsHandOff ==
  \A g \in completed :
    ~ping(serving[g].req) =>
      /\ serving[g].w.status = StatusOK => sentOnOut(g)
      /\ ~sentOnOut(g) => serving[g].w.status >= StatusBadRequest

\* An invocation at "out <- m" stays there unless out has room or the
\* consumer receives.
blocksOnOut ==
  \A g \in Invocations :
    (serving[g].pc = "sending" /\ serving'[g].pc # "sending")
      => \/ Len(out) < capacity
         \/ received' # received

\* C25: in both handlers a request that is not a ping completes with 200
\* only after its decoded record has been sent on out, and every request
\* whose record is not sent on out, other than a ping, completes with an
\* error status; an invocation with a record to send does not get past the
\* send while out is full or unbuffered and the consumer does not receive.
C25_ResponseFollowsHandOff == []followsHandOff /\ [][blocksOnOut]_vars

\* The same, for every request that the handler itself does not take for a
\* ping.
C25_HandOffApartFromPing ==
  /\ [](\A g \in completed :
         (serving[g].w.status = StatusOK /\ serving[g].w.body = ""
          /\ serving[g].m = Nil)
           => serving[g].req.RawQuery = NoFields)
  /\ [](\A g \in completed :
         /\ serving[g].m # Nil => serving[g].w = WriteHeader(StatusOK)
         /\ serving[g].m = Nil => serving[g].w.status \in
                                   {StatusOK, StatusBadRequest,
                                    StatusInternalServerError})
  /\ [][blocksOnOut]_vars

\* A message posted as a form with no query string has been answered 200
\* with nothing sent on out.
C25_PostedMessageDropped ==
  \E g \in completed :
    /\ handler = "NewMessageHandler"
    /\ ~ping(serving[g].req)
    /\ serving[g].w.status = StatusOK
    /\ ~sentOnOut(g)

\* An invocation waits at the send on a full channel while another has
\* completed with 200 after its record went through.
C25_BlockedAtSend ==
  \E g, h \in Invocations :
    /\ serving[g].pc = "sending" /\ capacity > 0 /\ Len(out) = capacity
    /\ serving[h].pc = "returned" /\ serving[h].w.status = StatusOK
    /\ sentOnOut(h)

\* SMS.Send in its three variants, Verification.Send and Verification.Check.
RecordSends ==
  {"SMS_Send_Form", "SMS_Send_First", "SMS_Send_JSON", "SMS_Send",
   "Verification_Send", "Verification_Check"}

\* The credential fields of the message records: unexported, but for the
\* first JSON variant of SMSMessage.
CredentialFields == {"apiKey", "apiSecret", "ApiKey", "ApiSecret"}

\* The fields of a message record that the caller sets.
exported(msg) == [k \in DOMAIN msg \ CredentialFields |-> msg[k]]

\* The credential fields of a message record, none in the form-encoded
\* variant.
credentials(msg) == [k \in DOMAIN msg \cap CredentialFields |-> msg[k]]

\* The record holds the client's credentials.
holdsCredentials(msg) ==
  \A k \in DOMAIN credentials(msg) :
    msg[k] = IF k \in {"apiKey", "ApiKey"} THEN APIKey ELSE APISecret

\* The call ended in validation: an error is returned and no request was
\* built.
failedValidation(rs, reqs) ==
  /\ reqs = << >>
  /\ ~rs.panic
  /\ rs.err # Nil

\* A call of one of these operations on the caller's record.
recordSend == call = NoCall /\ call' # NoCall /\ op \in RecordSends

\* C26: a call of SMS.Send, Verification.Send or Verification.Check leaves
\* every exported field of the caller's record as it was, whether the call
\* succeeds, fails validation or fails in transport; the credential fields
\* of the record change only when the client is not in the signing mode and
\* validation has passed, and they then hold the client's credentials.
C26_OnlyCredentialsWritten ==
  [][recordSend =>
       /\ exported(message') = exported(message)
       /\ credentials(message') # credentials(message) =>
            /\ ~call'.useOauth
            /\ ~failedValidation(result', sent')
            /\ holdsCredentials(message')
       /\ (call'.useOauth \/ failedValidation(result', sent')) =>
            message' = message]_vars

\* SMS.Send through a client that does not sign has failed in transport
\* and the record holds the client's credentials.
C26_Witness ==
  /\ op = "SMS_Send" /\ call # NoCall /\ ~call.useOauth
  /\ sent # << >> /\ ~result.panic /\ result.err # Nil
  /\ message.apiKey = APIKey /\ message.apiSecret = APISecret

\* Verification.Check through a signing client has gone out and the record
\* holds no credentials.
C26_WitnessSigning ==
  /\ op = "Verification_Check" /\ call # NoCall /\ call.useOauth
  /\ sent # << >> /\ message.apiKey = ""

\* Verification.Send through a client that does not sign has failed
\* validation and the record holds no credentials.
C26_WitnessInvalid ==
  /\ op = "Verification_Send" /\ call # NoCall /\ ~call.useOauth
  /\ failedValidation(result, sent) /\ message.apiKey = ""

\* A record that holds credentials from an earlier call has gone out
\* again through a signing client.
C26_WitnessReused ==
  /\ op = "SMS_Send_JSON" /\ call # NoCall /\ call.useOauth
  /\ sent # << >> /\ message.apiKey = APIKey

\* req reaches the decoding of a text or unicode message whose timestamp
\* and concatenation fields are valid.
textMessageRequest ==
  /\ isMessage /\ served /\ admitted
  /\ req.RawQuery # NoFields
  /\ FormValue(ParseForm(req).Form, "type") \in {"text", "unicode"}
  /\ ~messageTimestamp(ParseForm(req).Form).err
  /\ ~messageConcat(ParseForm(req).Form).err

\* The text value of req as form parsing decoded it.
formText == FormValue(ParseForm(req).Form, "text")

\* C27: form values are used as already percent-decoded: for every inbound
\* text or unicode message whose form-decoded text value is T, the
\* ReceivedMessage passed to out has Text = T; a T with a "%" or a "+" in it
\* is delivered unchanged and is no cause of rejection.
C27_TextAsDecoded ==
  textMessageRequest => m # Nil /\ m.Text = formText

\* A text that is "100%" after form parsing has been rejected with 500.
C27_PercentRejected ==
  /\ textMessageRequest /\ formText = "100%"
  /\ m = Nil /\ w.status = StatusInternalServerError

\* A text that is "a+b" after form parsing has been passed on as "a b".
C27_PlusBecomesSpace ==
  /\ textMessageRequest /\ formText = "a+b"
  /\ m # Nil /\ m.Text = "a b"

\* A text with neither "%" nor "+" in it has been passed on as it is.
C27_PlainTextKept ==
  /\ textMessageRequest /\ formText = "Hello"
  /\ m # Nil /\ m.Text = "Hello"

\* The variants of SMS.Send.
SMSSends == {"SMS_Send_Form", "SMS_Send_First", "SMS_Send_JSON", "SMS_Send"}

\* The record is of type Text, or of the unset type where the variant has
\* one.
ofTypeText ==
  IF op = "SMS_Send_Form" THEN message.Type \in {0, FormTypes.Text}
  ELSE message.Type = Text

ofTypeUnicode ==
  IF op = "SMS_Send_Form" THEN message.Type = FormTypes.Unicode
  ELSE message.Type = Unicode

\* A call of a variant of SMS.Send on a record with an empty Text that
\* passes the checks of From, To and ClientReference.
emptyTextSent ==
  /\ op \in SMSSends /\ call # NoCall
  /\ message.From # "" /\ message.To # ""
  /\ Len(message.ClientReference) <= 40
  /\ message.Text = ""

\* The call was refused with "Invalid message text" and built no request.
textRefused ==
  /\ sent = << >>
  /\ ~result.panic
  /\ result.resp = Nil
  /\ result.err = New("Invalid message text")

\* C28: in every variant of SMS.Send, a message of type Text (or of the
\* unset type, where the variant has one) with an empty Text is refused with
\* "Invalid message text" before any request is made, as a Unicode message
\* with an empty Text is.
C28_EmptyTextRefused ==
  (emptyTextSent /\ (ofTypeText \/ ofTypeUnicode)) => textRefused

\* What the variants do: the form-encoded and the first JSON variant refuse
\* the empty Text of a Text message and send that of a Unicode message, the
\* later JSON variants refuse that of a Unicode message and send that of a
\* Text message.
C28_RefusedByVariant ==
  emptyTextSent =>
    IF op \in {"SMS_Send_Form", "SMS_Send_First"}
    THEN (ofTypeText => textRefused) /\ (ofTypeUnicode => sent # << >>)
    ELSE (ofTypeUnicode => textRefused) /\ (ofTypeText => sent # << >>)

\* SMS.Send as it is now has sent a Text message with an empty Text.
C28_EmptyTextGoesOut ==
  /\ emptyTextSent /\ op = "SMS_Send" /\ ofTypeText
  /\ sent # << >>
  /\ "text" \notin DOMAIN payload

\* The form-encoded variant has refused a message of the unset type with an
\* empty Text.
C28_UnsetTypeRefused ==
  /\ emptyTextSent /\ op = "SMS_Send_Form" /\ message.Type = 0
  /\ textRefused

\* req reaches the decoding of a binary message that has neither a data nor
\* a udh field and whose timestamp and concatenation fields are valid.
bareBinaryRequest ==
  /\ isMessage /\ served /\ admitted
  /\ req.RawQuery # NoFields
  /\ FormValue(ParseForm(req).Form, "type") = "binary"
  /\ {"data", "udh"} \cap DOMAIN ParseForm(req).Form = {}
  /\ ~messageTimestamp(ParseForm(req).Form).err
  /\ ~messageConcat(ParseForm(req).Form).err

\* C29: an inbound request with type=binary whose data and udh fields are
\* missing is accepted: with a valid message-timestamp, a ReceivedMessage of
\* Type BinaryMessage with empty Data and UDH is passed to out and the
\* request is answered 200.
C29_BareBinaryAccepted ==
  bareBinaryRequest =>
    /\ m # Nil
    /\ m.Type = BinaryMessage
    /\ m.Data = "" /\ m.UDH = ""
    /\ w.status = StatusOK

\* A binary message without data and udh has been passed to out.
C29_Witness ==
  /\ bareBinaryRequest
  /\ m # Nil /\ m.Type = BinaryMessage /\ m.Data = "" /\ m.UDH = ""

\* The form-encoded sending operations.
FormSends ==
  {"Conn_SendTextMessage", "Conn_SendFlashMessage", "SendTextMessage",
   "SendFlashMessage", "SendUssdPush", "SendUssdPrompt", "SMS_Send_Form",
   "USSD_Send"}

\* The caller asked for a status report.
reportRequested ==
  IF op \in {"SMS_Send_Form", "USSD_Send"} THEN message.StatusReportRequired
  ELSE message.statusReportRequired

\* A form-encoded sending operation has sent its request.
formSent == op \in FormSends /\ call # NoCall /\ sent # << >>

\* The payload, as encoded, carries status_report_req = "1" when the caller asked for a
\* status report and no status_report_req otherwise.
reportFlagged ==
  IF reportRequested
  THEN carries("status_report_req") /\ payload["status_report_req"] = QueryEscape("1")
  ELSE ~carries("status_report_req")

\* C30: when the caller requests a status report, the form payload of the
\* request sent carries status_report_req with the value "1", the decimal
\* digit, in every form-encoded send variant; when the caller does not
\* request it, the parameter is absent.
C30_StatusReportFlag == formSent => reportFlagged

\* What the variants do: SMS.Send and USSD.Send send "1", the sendMessage
\* of Conn and of the first Client send string(1), the byte 1; all leave
\* the parameter out when no report is asked for.
C30_FlagByVariant ==
  formSent =>
    IF ~reportRequested THEN ~carries("status_report_req")
    ELSE /\ carries("status_report_req")
         /\ payload["status_report_req"] =
              IF op \in {"SMS_Send_Form", "USSD_Send"} THEN QueryEscape("1")
              ELSE QueryEscape(string1)

\* SendTextMessage has sent a request for a status report whose flag is the
\* byte 1.
C30_ControlCharacterSent ==
  /\ formSent /\ op = "SendTextMessage" /\ reportRequested
  /\ payload["status_report_req"] = QueryEscape(string1)

\* USSD.Send has sent a request for a status report whose flag is "1".
C30_DigitSent ==
  /\ formSent /\ op = "USSD_Send" /\ reportRequested
  /\ payload["status_report_req"] = "1"

=============================================================================
